---------------------------- MODULE Spec2Model ----------------------------
(***************************************************************************)
(* Scramjet routing and transport fabric: the Cartographer (node map,     *)
(* leader schedule, slot clock), the Shield blocklist manager and the     *)
(* QUIC engine's session cache, as state machines over small domains.     *)
(*                                                                         *)
(* Each subsystem has its own specification over the shared variables:    *)
(*   SpecTarget  Cartographer::get_target against the three writers       *)
(*   SpecScout   Cartographer::get_upcoming_leaders against the writers   *)
(*   SpecClock   update_slot / get_known_slot / fetch_rpc_slot            *)
(*   SpecShield  BlocklistManager (load_local, fetch_remote, updater)     *)
(*   SpecParse   BlocklistManager::parse_blocklist as a pure function     *)
(*   SpecEngine  QuicEngine::get_connection and the session cache         *)
(*   SpecConfig  Config::from_env and Config::validate                    *)
(*   SpecBoot    main from its first line to the subcommand, with the     *)
(*               clock source it starts (poller or spawn_geyser_monitor)  *)
(*   SpecFire    fire_transaction, spam_transactions, send_transaction    *)
(*   SpecTopology  refresh_topology against the two readers               *)
(*   SpecSchedule  concurrent update_schedule calls, step by step         *)
(* The variables a specification does not use keep their initial value.   *)
(***************************************************************************)
EXTENDS Integers, Sequences, FiniteSets, TLC

\* ------------------------------------------------------------------ domains

\* Option::None
None == "none"

\* Validator public keys (Pubkey values).
Keys == {"K1", "K2"}

\* Ingress socket addresses (SocketAddr values).
Addrs == {"A1", "A2"}

\* Longest lookahead asked of get_upcoming_leaders.
MaxLookahead == 3

\* The modelled cluster: epochs 0 and 1 of three slots each, epoch e
\* starting at slot 3e.
RelSlots == {0, 1, 2}
Epochs == {0, 1}
EpochStart(e) == e * Cardinality(RelSlots)
Slots == 0..(EpochStart(Cardinality(Epochs)) - 1)

\* ------------------------------------------------------------------ text
\* A string is a sequence of symbols.  A key symbol stands for the complete
\* base58 text of that key, SP for a whitespace character, HASH for '#',
\* BAD for a run of characters that is no base58 text of a 32-byte key.
SP == "SP"
HASH == "HASH"
BAD == "BAD"
Symbols == Keys \cup {SP, HASH, BAD}

\* Pubkey::from_str: the text decodes iff it is exactly one key's base58
\* text; anything longer, shorter or with a foreign character is an error.
PubkeyFromStr(s) ==
    IF Len(s) = 1 /\ s[1] \in Keys THEN s[1] ELSE None

\* The base58 text of a key (Display for Pubkey).
PubkeyToString(k) == <<k>>

PubkeyStrs == {<<"K1">>, <<"K2">>, <<BAD>>}

\* ------------------------------------------------------------------ results
\* Result<T, E>: Ok(v) or Err(e).
Ok(v) == [ok |-> TRUE, val |-> v]
Err(e) == [ok |-> FALSE, val |-> e]
OkOf(S) == {Ok(v) : v \in S}

\* ------------------------------------------------------------------ maps
\* A HashMap is a function on the set of keys it holds.
EmptyMap == [x \in {} |-> None]

MapGet(m, k) == IF k \in DOMAIN m THEN m[k] ELSE None

MapInsert(m, k, v) == [x \in (DOMAIN m) \cup {k} |-> IF x = k THEN v ELSE m[x]]

MapRemove(m, k) == [x \in (DOMAIN m) \ {k} |-> m[x]]

VARIABLES
    node_map,       \* Cartographer.node_map: Pubkey -> SocketAddr
    schedule,       \* Cartographer.schedule: slot -> Pubkey
    current_slot,   \* Cartographer.current_slot (AtomicU64)
    current_epoch,  \* Cartographer.current_epoch (AtomicU64)
    blocklist,      \* BlocklistHandle: the HashSet behind the RwLock
    gt,             \* one get_target call: its position and locals
    gul,            \* one get_upcoming_leaders call: its arguments and result
    gks,            \* one get_known_slot call: its result
    written,        \* history: the argument of the last completed update_slot
    remote_url,     \* BlocklistManager.remote_url is Some
    file,           \* the file at BlocklistManager.local_path
    bl_lock,        \* the RwLock of the BlocklistHandle
    mgr,            \* the task that runs load_local and the updater
    rd,             \* a reader of the blocklist: the guard it holds, what it read
    swap,           \* history: the sets before and after the last swap begun
    pb,             \* one parse_blocklist call: its input and result
    cache,          \* QuicEngine.connection_cache: SocketAddr -> Connection
    opened,         \* the number of sessions handshaken so far (ids 1..opened)
    closed,         \* the sessions whose close_reason() is Some
    callers,        \* the get_connection calls in progress, one per caller
    hist,           \* history of the cache: last insert per address, herd flag
    cf,             \* one Config::from_env call: the environment and the result
    boot,           \* main: its position, the Config it holds, what it started
    gy,             \* the task of spawn_geyser_monitor and its startup channel
    cmd,            \* fire_transaction or spam_transactions: its position
    tx,             \* one send_transaction call: its position and its steps
    us,             \* the update_schedule calls in progress, and the writer of the
                    \* schedule's lock
    gc,             \* one GeyserListener::connect call and the requests of its client
    sm,             \* history: the last message start_tracking took from the stream
    scout,          \* the Scout task of main: its position and its locals
    sn,             \* one get_target call with the routing answers during it
    poll,           \* the polling clock task of main: its position, its last call
    lk              \* the three RwLocks of the routing state and the calls that use them

routeVars == <<node_map, schedule, current_slot, current_epoch, blocklist, written>>
callVars == <<gt, gul, gks>>
shieldVars == <<remote_url, file, bl_lock, mgr, rd, swap>>
parseVars == <<pb>>
updVars == <<us>>
lateVars == <<gc, sm, scout, sn, poll, lk>>
engineVars == <<cache, opened, closed, callers, hist>>
procVars == <<cf, boot, gy, cmd, tx>>
vars == <<routeVars, callVars, shieldVars, parseVars, updVars, lateVars, engineVars, procVars>>

\* What the Cartographer's operations leave alone.
offRoute == <<shieldVars, parseVars, updVars, lateVars, engineVars, procVars>>


\* ------------------------------------------------------------------ blocklist text
NL == "NL"
Chars == Symbols \cup {NL}

\* str::lines: the pieces between line feeds; a last empty piece is no line.
RECURSIVE SplitNL(_, _)
SplitNL(s, cur) ==
    IF s = <<>> THEN <<cur>>
    ELSE IF Head(s) = NL THEN <<cur>> \o SplitNL(Tail(s), <<>>)
    ELSE SplitNL(Tail(s), Append(cur, Head(s)))

Lines(content) ==
    LET pieces == SplitNL(content, <<>>)
        n == Len(pieces)
    IN IF pieces[n] = <<>> THEN SubSeq(pieces, 1, n - 1) ELSE pieces

\* str::trim: whitespace dropped at both ends.
RECURSIVE TrimStart(_)
TrimStart(s) ==
    IF s # <<>> /\ Head(s) = SP THEN TrimStart(Tail(s)) ELSE s

RECURSIVE TrimEnd(_)
TrimEnd(s) ==
    IF s # <<>> /\ s[Len(s)] = SP THEN TrimEnd(SubSeq(s, 1, Len(s) - 1)) ELSE s

Trim(s) == TrimEnd(TrimStart(s))

\* A filter that looks at the line as it stands.
ParseLineNoTrim(line) ==
    IF line = <<>> \/ line[1] = HASH THEN None
    ELSE PubkeyFromStr(line)

\* The closure of parse_blocklist's filter_map: Some(pk) or None for one line.
ParseLine(line) ==
    LET trimmed == Trim(line)
    IN IF trimmed = <<>> \/ trimmed[1] = HASH THEN None
       ELSE PubkeyFromStr(trimmed)

RECURSIVE CollectKeys(_)
CollectKeys(ls) ==
    IF ls = <<>> THEN {}
    ELSE LET pk == ParseLine(Head(ls))
         IN (IF pk = None THEN {} ELSE {pk}) \cup CollectKeys(Tail(ls))

\* BlocklistManager::parse_blocklist
parse_blocklist(content) == CollectKeys(Lines(content))

\* The texts parse_blocklist is checked on: every text of up to MaxContentLen
\* symbols.
MaxContentLen == 5
SeqsUpTo(S, n) == UNION {[1..m -> S] : m \in 0..n}
Contents == SeqsUpTo(Chars, MaxContentLen)

\* Local blocklist files an operator may have written (the last is the file
\* of test_parse_blocklist cut to two keys).
FileContents ==
    { <<>>,
      <<HASH, BAD, NL>>,
      <<"K1", NL>>,
      <<"K2", NL>>,
      <<"K1", NL, "K2", NL>>,
      <<SP, HASH, SP, BAD, NL, SP, "K1", NL, SP, BAD, NL, SP, NL, SP, "K2", NL, SP>> }

\* ------------------------------------------------------------------ Cartographer writers
\* A reader's call that overlaps a write is no longer on one snapshot.
Touch(call) == IF call.pc = "idle" THEN call ELSE [call EXCEPT !.clean = FALSE]

\* A slot tracker that never goes back (the compare-and-swap loop the
\* design leaves out).
update_slot_monotonic(slot) ==
    /\ current_slot' = IF slot > current_slot THEN slot ELSE current_slot
    /\ written' = <<slot>>
    /\ gks' = Touch(gks)

\* Cartographer::update_slot: one atomic swap of current_slot.
update_slot(slot) ==
    /\ current_slot' = slot
    /\ written' = <<slot>>
    /\ gks' = Touch(gks)

\* getClusterNodes: a list of nodes, each with its key text and, when it
\* advertises one, its QUIC ingress address.
Node(text, addr) == [pubkey |-> text, tpu_quic |-> addr]

\* Answers of the upstream: no node; two leaders with their own addresses,
\* either way round; two leaders behind one address; a node without an
\* ingress address; a node whose key text does not parse; a key listed twice.
ClusterResponses ==
    { <<>>,
      <<Node(<<"K1">>, "A1"), Node(<<"K2">>, "A2")>>,
      <<Node(<<"K1">>, "A2"), Node(<<"K2">>, "A1")>>,
      <<Node(<<"K1">>, "A1"), Node(<<"K2">>, "A1")>>,
      <<Node(<<"K1">>, "A1"), Node(<<"K2">>, None)>>,
      <<Node(<<BAD>>, "A1"), Node(<<"K2">>, "A2")>>,
      <<Node(<<"K1">>, "A1"), Node(<<"K1">>, "A2")>> }

\* The loop of refresh_topology that builds new_map.
RECURSIVE BuildNodeMap(_, _)
BuildNodeMap(nodes, new_map) ==
    IF nodes = <<>> THEN new_map
    ELSE LET node == Head(nodes)
             pubkey == PubkeyFromStr(node.pubkey)
         IN IF node.tpu_quic # None /\ pubkey # None
            THEN BuildNodeMap(Tail(nodes), MapInsert(new_map, pubkey, node.tpu_quic))
            ELSE BuildNodeMap(Tail(nodes), new_map)

RpcError == "RpcError"

\* A refresh that inserts into the stored map instead of replacing it.
refresh_topology_merging(rpc) ==
    IF ~rpc.ok
    THEN UNCHANGED <<node_map, gt, gul>>
    ELSE /\ node_map' = BuildNodeMap(rpc.val, node_map)
         /\ gt' = Touch(gt)
         /\ gul' = Touch(gul)

\* Cartographer::refresh_topology with the upstream's answer rpc.
refresh_topology(rpc) ==
    IF ~rpc.ok
    THEN UNCHANGED <<node_map, gt, gul>>
    ELSE /\ node_map' = BuildNodeMap(rpc.val, EmptyMap)
         /\ gt' = Touch(gt)
         /\ gul' = Touch(gul)

RefreshTopology(rpc) ==
    /\ refresh_topology(rpc)
    /\ UNCHANGED <<schedule, current_slot, current_epoch, blocklist, written, gks>>
    /\ UNCHANGED offRoute

\* getEpochInfo answers.
EpochInfos ==
    {[epoch |-> e, absolute_slot |-> EpochStart(e) + i, slot_index |-> i] :
        e \in Epochs, i \in RelSlots}

\* getLeaderSchedule answers: key text -> relative slots (the order inside a
\* Vec does not matter to the inversion).
\* The schedule of test_scout_lookahead (A, A, B); a leader who comes back
\* after another; the other leader first; a key text that does not parse;
\* one leader for the whole epoch; a schedule without entries.
ScheduleData ==
    { [t \in {<<"K1">>, <<"K2">>} |-> IF t = <<"K1">> THEN {0, 1} ELSE {2}],
      [t \in {<<"K1">>, <<"K2">>} |-> IF t = <<"K1">> THEN {0, 2} ELSE {1}],
      [t \in {<<"K1">>, <<"K2">>} |-> IF t = <<"K1">> THEN {1, 2} ELSE {0}],
      [t \in PubkeyStrs |-> IF t = <<"K1">> THEN {0} ELSE IF t = <<BAD>> THEN {1} ELSE {2}],
      [t \in {<<"K1">>} |-> {0, 1, 2}],
      [t \in {} |-> {}] }

ScheduleUnavailable == "ScheduleUnavailable"

\* std::io::ErrorKind::NotFound
NotFound == "NotFound"

\* Any other std::io::Error of read_to_string: the file is there and cannot
\* be read.
PermissionDenied == "PermissionDenied"

\* The inversion loop of update_schedule: every (key, relative slot) pair is
\* inserted at start_slot + rel_slot; a text that is no key is skipped.  When
\* two keys claim one slot the later insert wins, in the HashMap's iteration
\* order, which is any order.
ScheduleSlots(data, start_slot) ==
    {start_slot + r : r \in UNION {data[s] : s \in {t \in DOMAIN data : PubkeyFromStr(t) # None}}}

NewSchedules(data, start_slot) ==
    LET abs == ScheduleSlots(data, start_slot)
    IN {f \in [abs -> Keys] :
          \A a \in abs : \E s \in DOMAIN data :
              PubkeyFromStr(s) = f[a] /\ (a - start_slot) \in data[s]}

\* A test that always asks for a refresh.
EpochChangedAlways(current, stored) == TRUE

\* The test update_schedule applies to decide whether to refresh.
EpochChanged(current, stored) == current > stored \/ stored = 0

LeaderScheduleAnswers ==
    OkOf(ScheduleData) \cup {Err(RpcError), Err(ScheduleUnavailable)}

\* update_schedule once the epoch test has passed, with the upstream's
\* answer sched to getLeaderSchedule.
install_schedule(info, sched) ==
    IF sched.ok
    THEN /\ schedule' \in NewSchedules(sched.val,
                             info.val.absolute_slot - info.val.slot_index)
         /\ current_epoch' = info.val.epoch
         /\ update_slot(info.val.absolute_slot)
         /\ gt' = Touch(gt)
         /\ gul' = Touch(gul)
    ELSE UNCHANGED <<schedule, current_epoch, current_slot, written, callVars>>

\* Cartographer::update_schedule with the upstream's answer info to
\* getEpochInfo; getLeaderSchedule is asked only when the epoch test passes.
UpdateSchedule(info) ==
    /\ IF info.ok /\ EpochChanged(info.val.epoch, current_epoch)
       THEN \E sched \in LeaderScheduleAnswers : install_schedule(info, sched)
       ELSE UNCHANGED <<schedule, current_epoch, current_slot, written, callVars>>
    /\ UNCHANGED <<node_map, blocklist>>
    /\ UNCHANGED offRoute

\* A fetch that clears the slot when the upstream fails.
fetch_rpc_slot_clearing(rpc) ==
    IF rpc.ok THEN update_slot(rpc.val) ELSE update_slot(0)

\* self.rpc.get_slot().await, with map_err and ?, then update_slot(slot)
fetch_rpc_slot(rpc) ==
    IF rpc.ok
    THEN update_slot(rpc.val)
    ELSE UNCHANGED <<current_slot, written, gks>>

\* Cartographer::fetch_rpc_slot with the upstream's answer to getSlot.
FetchRpcSlot(rpc) ==
    /\ fetch_rpc_slot(rpc)
    /\ UNCHANGED <<node_map, schedule, current_epoch, blocklist, gt, gul>>
    /\ UNCHANGED offRoute

\* The streaming clock hands a processed slot to update_slot.
ClockTick(slot) ==
    /\ update_slot(slot)
    /\ UNCHANGED <<node_map, schedule, current_epoch, blocklist, gt, gul>>
    /\ UNCHANGED offRoute

\* BlocklistManager::load_local as the routing side sees it: the set is
\* replaced, in one write under the lock, iff the file parses to a
\* non-empty set.
LoadLocalFrom(f) ==
    LET keys == IF f.ok THEN parse_blocklist(f.val) ELSE {}
    IN IF Cardinality(keys) > 0
       THEN /\ blocklist' = keys
            /\ gt' = Touch(gt)
            /\ gul' = Touch(gul)
       ELSE UNCHANGED <<blocklist, gt, gul>>

ShieldReload ==
    /\ \E f \in OkOf(FileContents) \cup {Err(NotFound)} : LoadLocalFrom(f)
    /\ UNCHANGED <<node_map, schedule, current_slot, current_epoch, written, gks>>
    /\ UNCHANGED offRoute

\* ------------------------------------------------------------------ get_target
GtIdle == [pc |-> "idle", slot |-> 0, key |-> None, result |-> None, clean |-> TRUE]

\* Step 1: the leader of the slot, under the schedule's read lock.
GtLookup(slot) ==
    /\ gt.pc = "idle"
    /\ LET leader_pubkey == MapGet(schedule, slot)
       IN gt' = IF leader_pubkey = None
                THEN [GtIdle EXCEPT !.pc = "done", !.slot = slot]
                ELSE [GtIdle EXCEPT !.pc = "shield", !.slot = slot, !.key = leader_pubkey]
    /\ UNCHANGED <<routeVars, gul, gks>>
    /\ UNCHANGED offRoute

\* The lookup of the revision without the Shield: every leader passes.
ShieldPassesUnfiltered(key) == TRUE

\* Whether step 2 lets the leader through.
ShieldPasses(key) == key \notin blocklist

\* Step 2: the shield check, under the blocklist's read lock.
GtShield ==
    /\ gt.pc = "shield"
    /\ gt' = IF ShieldPasses(gt.key)
             THEN [gt EXCEPT !.pc = "resolve"]
             ELSE [gt EXCEPT !.pc = "done", !.result = None]
    /\ UNCHANGED <<routeVars, gul, gks>>
    /\ UNCHANGED offRoute

\* Step 3: the leader's address, under the node map's read lock.
GtResolve ==
    /\ gt.pc = "resolve"
    /\ gt' = [gt EXCEPT !.pc = "done", !.result = MapGet(node_map, gt.key)]
    /\ UNCHANGED <<routeVars, gul, gks>>
    /\ UNCHANGED offRoute

\* The caller takes the result.
GtReturn ==
    /\ gt.pc = "done"
    /\ gt' = GtIdle
    /\ UNCHANGED <<routeVars, gul, gks>>
    /\ UNCHANGED offRoute

\* ------------------------------------------------------------------ get_upcoming_leaders
GulIdle == [pc |-> "idle", cur |-> 0, k |-> 0, result |-> <<>>, clean |-> TRUE]

\* Vec::contains
Contains(vec, x) == \E i \in 1..Len(vec) : vec[i] = x

\* A loop body that pushes without looking for the address in the list.
ScoutVisitNoDedup(unique_targets, target_slot) ==
    LET pubkey == MapGet(schedule, target_slot)
    IN IF pubkey = None \/ pubkey \in blocklist \/ MapGet(node_map, pubkey) = None
       THEN unique_targets
       ELSE Append(unique_targets, MapGet(node_map, pubkey))

\* A loop body that puts a new address in front of the list.
ScoutVisitPushFront(unique_targets, target_slot) ==
    LET pubkey == MapGet(schedule, target_slot)
    IN IF pubkey = None \/ pubkey \in blocklist \/ MapGet(node_map, pubkey) = None
          \/ Contains(unique_targets, MapGet(node_map, pubkey))
       THEN unique_targets
       ELSE <<MapGet(node_map, pubkey)>> \o unique_targets

\* The body of get_upcoming_leaders' loop for one target slot.
ScoutVisit(unique_targets, target_slot) ==
    LET pubkey == MapGet(schedule, target_slot)
    IN IF pubkey = None THEN unique_targets
       ELSE IF pubkey \in blocklist THEN unique_targets
       ELSE LET addr == MapGet(node_map, pubkey)
            IN IF addr # None /\ ~Contains(unique_targets, addr)
               THEN Append(unique_targets, addr)
               ELSE unique_targets

\* for i in 1..=lookahead, from i on.
RECURSIVE ScoutLoop(_, _, _, _)
ScoutLoop(i, current, lookahead, unique_targets) ==
    IF i > lookahead THEN unique_targets
    ELSE ScoutLoop(i + 1, current, lookahead, ScoutVisit(unique_targets, current + i))

\* Cartographer::get_upcoming_leaders: the three read guards are held
\* together while the loop runs, so the loop reads one state of the tables.
GetUpcomingLeaders(current, lookahead) ==
    /\ gul.pc = "idle"
    /\ gul' = [pc |-> "done", cur |-> current, k |-> lookahead,
               result |-> ScoutLoop(1, current, lookahead, <<>>), clean |-> TRUE]
    /\ UNCHANGED <<routeVars, gt, gks>>
    /\ UNCHANGED offRoute

\* The caller takes the list.
GulReturn ==
    /\ gul.pc = "done"
    /\ gul' = GulIdle
    /\ UNCHANGED <<routeVars, gt, gks>>
    /\ UNCHANGED offRoute

\* ------------------------------------------------------------------ get_known_slot
GksIdle == [pc |-> "idle", result |-> 0, clean |-> TRUE]

\* Cartographer::get_known_slot: one atomic load.
GetKnownSlot ==
    /\ gks.pc = "idle"
    /\ gks' = [pc |-> "done", result |-> current_slot, clean |-> TRUE]
    /\ UNCHANGED <<routeVars, gt, gul>>
    /\ UNCHANGED offRoute

\* The caller takes the slot.
GksReturn ==
    /\ gks.pc = "done"
    /\ gks' = GksIdle
    /\ UNCHANGED <<routeVars, gt, gul>>
    /\ UNCHANGED offRoute

\* ------------------------------------------------------------------ Shield
\* What the BlocklistManager's operations leave alone.
offShield ==
    <<node_map, schedule, current_slot, current_epoch, written, callVars,
      parseVars, updVars, lateVars, engineVars, procVars>>

\* tokio's RwLock around the set: any number of readers or one writer; a
\* writer that waits keeps new readers out (the lock is fair).
LockFree == [readers |-> 0, writer |-> "none"]

\* A reader that does not wait for the writer.
CanReadUnlocked == TRUE

\* blocklist.read().await is granted
CanRead == bl_lock.writer = "none"

\* blocklist.write().await is granted
CanWrite == bl_lock.writer = "waiting" /\ bl_lock.readers = 0

\* The task that calls load_local and then runs the updater.
MgrNew ==
    [pc |-> "new", stage |-> "boot", op |-> "none", keys |-> {},
     before |-> {}, refused |-> FALSE, ret |-> Ok(0)]

\* The call of blocklist.write(): the task queues for the lock.
RequestWrite(op, keys) ==
    /\ mgr' = [mgr EXCEPT !.pc = "w_wait", !.op = op, !.keys = keys]
    /\ bl_lock' = [bl_lock EXCEPT !.writer = "waiting"]
    /\ swap' = [pre |-> blocklist, post |-> keys]

\* The application loads the local file before it spawns the updater.
LoadLocalCall ==
    /\ mgr.pc = "new"
    /\ mgr' = [mgr EXCEPT !.pc = "load_read", !.stage = "boot"]
    /\ UNCHANGED <<blocklist, remote_url, file, bl_lock, rd, swap>>
    /\ UNCHANGED offShield

\* A load that replaces the set whatever it parsed.
load_replaces_always(count) == TRUE

\* load_local's test before it takes the write lock: if count > 0
load_replaces(count) == count > 0

\* load_local up to the write lock: the file is read and parsed; an empty
\* or unreadable file returns zero and touches nothing.
LoadRead ==
    /\ mgr.pc = "load_read"
    /\ LET keys == IF file.ok THEN parse_blocklist(file.val) ELSE {}
       IN IF load_replaces(Cardinality(keys))
          THEN RequestWrite("load", keys)
          ELSE /\ mgr' = [mgr EXCEPT !.pc = "load_ret", !.op = "load",
                                     !.ret = Ok(0)]
               /\ UNCHANGED <<bl_lock, swap>>
    /\ UNCHANGED <<blocklist, remote_url, file, rd>>
    /\ UNCHANGED offShield

SwapAcquire ==
    /\ mgr.pc = "w_wait"
    /\ CanWrite
    /\ bl_lock' = [bl_lock EXCEPT !.writer = "held"]
    /\ mgr' = [mgr EXCEPT !.pc = "w_held"]
    /\ UNCHANGED <<blocklist, remote_url, file, rd, swap>>
    /\ UNCHANGED offShield

\* *guard = keys is not one machine write: while it runs the set is in no
\* defined state.
SwapTear ==
    /\ mgr.pc = "w_held"
    /\ blocklist' \in SUBSET Keys
    /\ mgr' = [mgr EXCEPT !.pc = "w_torn"]
    /\ UNCHANGED <<remote_url, file, bl_lock, rd, swap>>
    /\ UNCHANGED offShield

SwapStore ==
    /\ mgr.pc = "w_torn"
    /\ blocklist' = mgr.keys
    /\ mgr' = [mgr EXCEPT !.pc = "w_stored"]
    /\ UNCHANGED <<remote_url, file, bl_lock, rd, swap>>
    /\ UNCHANGED offShield

\* The guard is dropped and the operation returns the number of keys.
SwapRelease ==
    /\ mgr.pc = "w_stored"
    /\ bl_lock' = [bl_lock EXCEPT !.writer = "none"]
    /\ mgr' = [mgr EXCEPT !.pc = IF mgr.op = "load" THEN "load_ret" ELSE "fetch_ok",
                          !.ret = Ok(Cardinality(mgr.keys)), !.keys = {}]
    /\ UNCHANGED <<blocklist, remote_url, file, rd, swap>>
    /\ UNCHANGED offShield

\* load_local has returned to its caller: the application, or the updater's loop.
LoadReturn ==
    /\ mgr.pc = "load_ret"
    /\ mgr' = [mgr EXCEPT !.pc = IF mgr.stage = "boot" THEN "loaded" ELSE "sleep",
                          !.op = "none"]
    /\ UNCHANGED <<blocklist, remote_url, file, bl_lock, rd, swap>>
    /\ UNCHANGED offShield

\* The answers of the remote URL: the request fails, or a status comes with a
\* body that can or cannot be read.
StatusCodes == {200, 404}
RequestFailed == "RequestFailed"
BodyFailed == "BodyFailed"
HttpError == "HttpError"
EmptyRemote == "EmptyRemote"

RemoteAnswers ==
    {Err(RequestFailed)} \cup
    OkOf({[status |-> st, body |-> b] :
            st \in StatusCodes, b \in OkOf(FileContents) \cup {Err(BodyFailed)}})

\* StatusCode::is_success
is_success(st) == st >= 200 /\ st < 300

\* A fetch that takes whatever the remote sent.
RejectEmptyNever(keys) == FALSE

\* fetch_remote's safety check on the parsed body
RejectEmpty(keys) == keys = {}

\* The call of fetch_remote: the GET is on its way.
CallFetch(stage) ==
    mgr' = [mgr EXCEPT !.pc = "fetch_get", !.stage = stage, !.op = "fetch",
                       !.before = blocklist, !.refused = FALSE]

\* spawn_updater: the initial fetch when a remote URL is configured, then
\* the loop's first sleep.
SpawnUpdater ==
    /\ mgr.pc \in {"new", "loaded"}
    /\ IF remote_url THEN CallFetch("initial")
       ELSE mgr' = [mgr EXCEPT !.pc = "sleep", !.stage = "loop"]
    /\ UNCHANGED <<blocklist, remote_url, file, bl_lock, rd, swap>>
    /\ UNCHANGED offShield

\* The loop's sleep ends: a remote fetch, or a reload in local-only mode.
Wake ==
    /\ mgr.pc = "sleep"
    /\ IF remote_url THEN CallFetch("loop")
       ELSE mgr' = [mgr EXCEPT !.pc = "load_read", !.stage = "loop"]
    /\ UNCHANGED <<blocklist, remote_url, file, bl_lock, rd, swap>>
    /\ UNCHANGED offShield

\* fetch_remote from the response to the safety check.
FetchRespond(ans) ==
    /\ mgr.pc = "fetch_get"
    /\ LET fail(e) == [mgr EXCEPT !.pc = "fetch_err", !.ret = Err(e)]
       IN IF ~ans.ok THEN mgr' = fail(RequestFailed)
          ELSE IF ~is_success(ans.val.status)
          THEN mgr' = [fail(HttpError) EXCEPT !.refused = TRUE]
          ELSE IF ~ans.val.body.ok THEN mgr' = fail(BodyFailed)
          ELSE LET keys == parse_blocklist(ans.val.body.val)
               IN IF RejectEmpty(keys)
                  THEN mgr' = [fail(EmptyRemote) EXCEPT !.refused = TRUE]
                  ELSE mgr' = [mgr EXCEPT !.pc = "persist", !.keys = keys,
                                          !.refused = (keys = {})]
    /\ UNCHANGED <<blocklist, remote_url, file, bl_lock, rd, swap>>
    /\ UNCHANGED offShield

\* persist_to_file's text: one key and a line feed per key, in the set's
\* iteration order.
RECURSIVE Renderings(_)
Renderings(keys) ==
    IF keys = {} THEN {<<>>}
    ELSE UNION {{PubkeyToString(k) \o <<NL>> \o rest : rest \in Renderings(keys \ {k})} :
                  k \in keys}

\* fetch_remote persists first; a failed write is logged and the swap goes on.
Persist(written_ok) ==
    /\ mgr.pc = "persist"
    /\ IF written_ok THEN file' \in OkOf(Renderings(mgr.keys)) ELSE file' = file
    /\ RequestWrite("fetch", mgr.keys)
    /\ UNCHANGED <<blocklist, remote_url, rd>>
    /\ UNCHANGED offShield

\* fetch_remote has returned to the updater: on an error inside the loop the
\* updater reloads the local file.
FetchReturn ==
    /\ mgr.pc \in {"fetch_ok", "fetch_err"}
    /\ mgr' = [mgr EXCEPT !.pc = IF mgr.stage = "loop" /\ mgr.pc = "fetch_err"
                                 THEN "load_read" ELSE "sleep",
                          !.stage = "loop", !.op = "none",
                          !.before = {}, !.refused = FALSE]
    /\ UNCHANGED <<blocklist, remote_url, file, bl_lock, rd, swap>>
    /\ UNCHANGED offShield

\* The operator edits or deletes the local file.
EditFile(f) ==
    /\ file' = f
    /\ f # file
    /\ UNCHANGED <<blocklist, remote_url, bl_lock, mgr, rd, swap>>
    /\ UNCHANGED offShield

\* A reader of the set: is_blocked and get_target look one key up under the
\* read guard, get_upcoming_leaders one key per scheduled slot.
RdIdle == [pc |-> "idle", todo |-> {}, seen |-> EmptyMap]

ReadAcquire(ks) ==
    /\ rd.pc = "idle"
    /\ CanRead
    /\ bl_lock' = [bl_lock EXCEPT !.readers = @ + 1]
    /\ rd' = [pc |-> "locked", todo |-> ks, seen |-> EmptyMap]
    /\ UNCHANGED <<blocklist, remote_url, file, mgr, swap>>
    /\ UNCHANGED offShield

ReadContains(k) ==
    /\ rd.pc = "locked"
    /\ k \in rd.todo
    /\ rd' = [rd EXCEPT !.todo = @ \ {k}, !.seen = MapInsert(@, k, k \in blocklist)]
    /\ UNCHANGED <<blocklist, remote_url, file, bl_lock, mgr, swap>>
    /\ UNCHANGED offShield

ReadRelease ==
    /\ rd.pc = "locked"
    /\ rd.todo = {}
    /\ bl_lock' = [bl_lock EXCEPT !.readers = @ - 1]
    /\ rd' = RdIdle
    /\ UNCHANGED <<blocklist, remote_url, file, mgr, swap>>
    /\ UNCHANGED offShield

\* ------------------------------------------------------------------ parse_blocklist
\* One call of parse_blocklist on a text.
PbIdle == [pc |-> "idle", content |-> <<>>, keys |-> {}]

ParseCall ==
    /\ pb.pc = "idle"
    /\ \E content \in Contents :
          pb' = [pc |-> "done", content |-> content, keys |-> parse_blocklist(content)]
    /\ UNCHANGED <<routeVars, callVars, shieldVars, updVars, lateVars, engineVars, procVars>>

ParseReturn ==
    /\ pb.pc = "done"
    /\ pb' = PbIdle
    /\ UNCHANGED <<routeVars, callVars, shieldVars, updVars, lateVars, engineVars, procVars>>

\* ------------------------------------------------------------------ QuicEngine
\* What the engine's operations leave alone.
offEngine == <<routeVars, callVars, shieldVars, parseVars, updVars, lateVars, procVars>>

\* The tasks that acquire sessions: the send path and the Scout.
Callers == {"c1", "c2"}

\* Handshakes that complete in one run; session s is the s-th of them.
MaxSessions == 2

ConnectionError == "ConnectionError"

\* One get_connection call. hit: the fast path answered. live: the session
\* was open when the call got hold of it. after_ok: the call began after a
\* call for its address had succeeded, with no failure since. stale: the
\* session was closed when the call returned it.
CallerIdle ==
    [pc |-> "idle", addr |-> None, conn |-> 0, ok |-> FALSE, hit |-> FALSE,
     live |-> FALSE, after_ok |-> FALSE, stale |-> FALSE]

\* A fast path that does not look at the session.
IsLiveAlways(s) == TRUE

\* conn.close_reason().is_none()
IsLive(s) == s \notin closed

\* A call that keeps the map locked from its remove to its insert.
holds_shard_lock_in_handshake(call) == call.pc \in {"connect", "insert"}

\* The DashMap guards a call holds while it is suspended: none.  The Ref of
\* get is dropped with the if-let block, remove and insert lock inside
\* their own call only, and the handshake is awaited between them.
holds_shard_lock(call) == FALSE

\* The fast path: the cached session if it is open, else on to the slow path.
Probe(c, addr) ==
    /\ callers[c].pc = "idle"
    /\ \A d \in Callers \ {c} : ~holds_shard_lock(callers[d])
    /\ LET call == [CallerIdle EXCEPT !.addr = addr,
                                      !.after_ok = (addr \in hist.ok)]
       IN IF addr \in DOMAIN cache /\ IsLive(cache[addr])
          THEN callers' = [callers EXCEPT ![c] =
                              [call EXCEPT !.pc = "ret", !.conn = cache[addr],
                                           !.hit = TRUE,
                                           !.live = (cache[addr] \notin closed)]]
          ELSE callers' = [callers EXCEPT ![c] = [call EXCEPT !.pc = "miss"]]
    /\ hist' = [hist EXCEPT !.cold = IF addr \in DOMAIN hist.last
                                     THEN @ \ {addr} ELSE @]
    /\ UNCHANGED <<cache, opened, closed>>
    /\ UNCHANGED offEngine

\* A removal that empties the cache.
evict_all(m, addr) == EmptyMap

\* DashMap::remove: the entry of one key goes, if there is one.
evict(m, addr) == MapRemove(m, addr)

\* connection_cache.remove(&addr)
Remove(c) ==
    /\ callers[c].pc = "miss"
    /\ cache' = evict(cache, callers[c].addr)
    /\ callers' = [callers EXCEPT ![c].pc = "connect"]
    /\ UNCHANGED <<opened, closed, hist>>
    /\ UNCHANGED offEngine

\* endpoint.connect and the handshake it awaits: a new session, or an error
\* that ends the call.
Handshake(c, established) ==
    /\ callers[c].pc = "connect"
    /\ IF established
       THEN /\ opened < MaxSessions
            /\ opened' = opened + 1
            /\ callers' = [callers EXCEPT ![c].pc = "insert",
                                          ![c].conn = opened + 1,
                                          ![c].live = TRUE]
            /\ hist' = hist
       ELSE /\ opened' = opened
            /\ callers' = [callers EXCEPT ![c].pc = "done", ![c].ok = FALSE]
            /\ hist' = [hist EXCEPT !.ok = @ \ {callers[c].addr}]
    /\ UNCHANGED <<cache, closed>>
    /\ UNCHANGED offEngine

\* connection_cache.insert(addr, connection.clone())
Insert(c) ==
    /\ callers[c].pc = "insert"
    /\ cache' = MapInsert(cache, callers[c].addr, callers[c].conn)
    /\ callers' = [callers EXCEPT ![c].pc = "ret"]
    /\ hist' = [hist EXCEPT !.last = MapInsert(@, callers[c].addr, callers[c].conn)]
    /\ UNCHANGED <<opened, closed>>
    /\ UNCHANGED offEngine

\* Ok(connection) reaches the caller.
Return(c) ==
    /\ callers[c].pc = "ret"
    /\ callers' = [callers EXCEPT ![c].pc = "done", ![c].ok = TRUE,
                                  ![c].stale = (callers[c].conn \in closed),
                                  ![c].after_ok = @ /\ callers[c].addr \in hist.ok]
    /\ hist' = [hist EXCEPT !.ok = @ \cup {callers[c].addr}]
    /\ UNCHANGED <<cache, opened, closed>>
    /\ UNCHANGED offEngine

\* The caller is done with the result and may call again.
Finish(c) ==
    /\ callers[c].pc = "done"
    /\ callers' = [callers EXCEPT ![c] = CallerIdle]
    /\ UNCHANGED <<cache, opened, closed, hist>>
    /\ UNCHANGED offEngine

\* The peer or the idle timeout closes a session: its close_reason is set
\* for good.
Close(s) ==
    /\ s \in 1..opened
    /\ s \notin closed
    /\ closed' = closed \cup {s}
    /\ UNCHANGED <<cache, opened, callers, hist>>
    /\ UNCHANGED offEngine

\* ------------------------------------------------------------------ Config
\* What Config::from_env leaves alone.
offConfig ==
    <<routeVars, callVars, shieldVars, parseVars, updVars, lateVars, engineVars, boot, gy, cmd, tx>>

\* The text of an environment variable: not set, a decimal number, a number
\* with a minus sign, a number too large for the field's type, no number.
Unset == [kind |-> "unset", val |-> 0]
Num(n) == [kind |-> "num", val |-> n]
Neg(n) == [kind |-> "neg", val |-> n]
Big == [kind |-> "big", val |-> 0]
Junk == [kind |-> "junk", val |-> 0]
Str(u) == [kind |-> "str", val |-> u]
NoUrl == [kind |-> "unset", val |-> None]

\* The defaults of from_env.
DefaultRpcUrl == "mainnet"
DefaultPollMs == 400
DefaultScoutMs == 1000
DefaultLookahead == 10
DefaultMonitorMs == 400
DefaultReconnectMs == 1000
DefaultMaxReconnectMs == 10000
DefaultKeepAliveSecs == 5
DefaultIdleTimeoutSecs == 10
DefaultComputeUnitLimit == 200000
DefaultPriorityFee == 100000

\* The environments from_env is checked on.
Envs ==
    [rpc_url : {NoUrl},
     geyser_url : {NoUrl, Str("G1")},
     rpc_poll_interval_ms : {Unset, Num(10), Num(50), Neg(5)},
     scout_interval_ms : {Unset, Num(49)},
     scout_lookahead_slots : {Unset},
     monitor_interval_ms : {Unset, Num(0)},
     geyser_reconnect_delay_ms : {Unset, Num(20000)},
     geyser_max_reconnect_delay_ms : {Unset, Num(500), Junk},
     quic_keep_alive_secs : {Unset, Num(15), Num(0)},
     quic_idle_timeout_secs : {Unset, Num(0), Num(20)},
     default_compute_unit_limit : {Unset, Num(0), Big},
     default_priority_fee : {Unset, Neg(1), Num(0)}]

\* parse_env: the parsed value, or the default when the variable is not set
\* or its text does not parse as the field's unsigned type.
parse_env(text, default) ==
    IF text.kind = "num" THEN text.val ELSE default

MIN_INTERVAL_MS == 50

TooLow == "too low"
TransactionsWillFail == "transactions will fail"
DisconnectImmediately == "disconnect immediately"
MustBeLessThan == "must be less than"
MustBeAtLeast == "must be >="

ConfigValidationError(key, says) == Err([key |-> key, says |-> says])

\* A validation that does not look at the scout interval.
validate_without_scout(c) ==
    IF c.rpc_poll_interval_ms < MIN_INTERVAL_MS
    THEN ConfigValidationError("RPC_POLL_INTERVAL_MS", TooLow)
    ELSE IF c.monitor_interval_ms < MIN_INTERVAL_MS
    THEN ConfigValidationError("MONITOR_INTERVAL_MS", TooLow)
    ELSE IF c.default_compute_unit_limit = 0
    THEN ConfigValidationError("DEFAULT_COMPUTE_UNIT_LIMIT", TransactionsWillFail)
    ELSE IF c.quic_idle_timeout_secs = 0
    THEN ConfigValidationError("QUIC_IDLE_TIMEOUT_SECS", DisconnectImmediately)
    ELSE IF c.quic_keep_alive_secs >= c.quic_idle_timeout_secs
    THEN ConfigValidationError("QUIC_KEEP_ALIVE_SECS", MustBeLessThan)
    ELSE IF c.geyser_max_reconnect_delay_ms < c.geyser_reconnect_delay_ms
    THEN ConfigValidationError("GEYSER_MAX_RECONNECT_DELAY_MS", MustBeAtLeast)
    ELSE Ok(c)

\* Config::validate: the first failing check decides the error.
validate(c) ==
    IF c.rpc_poll_interval_ms < MIN_INTERVAL_MS
    THEN ConfigValidationError("RPC_POLL_INTERVAL_MS", TooLow)
    ELSE IF c.scout_interval_ms < MIN_INTERVAL_MS
    THEN ConfigValidationError("SCOUT_INTERVAL_MS", TooLow)
    ELSE IF c.monitor_interval_ms < MIN_INTERVAL_MS
    THEN ConfigValidationError("MONITOR_INTERVAL_MS", TooLow)
    ELSE IF c.default_compute_unit_limit = 0
    THEN ConfigValidationError("DEFAULT_COMPUTE_UNIT_LIMIT", TransactionsWillFail)
    ELSE IF c.quic_idle_timeout_secs = 0
    THEN ConfigValidationError("QUIC_IDLE_TIMEOUT_SECS", DisconnectImmediately)
    ELSE IF c.quic_keep_alive_secs >= c.quic_idle_timeout_secs
    THEN ConfigValidationError("QUIC_KEEP_ALIVE_SECS", MustBeLessThan)
    ELSE IF c.geyser_max_reconnect_delay_ms < c.geyser_reconnect_delay_ms
    THEN ConfigValidationError("GEYSER_MAX_RECONNECT_DELAY_MS", MustBeAtLeast)
    ELSE Ok(c)

\* Config::from_env: the fields are read, then validated.
from_env(env) ==
    validate(
        [rpc_url |-> IF env.rpc_url.kind = "str" THEN env.rpc_url.val ELSE DefaultRpcUrl,
         geyser_url |-> IF env.geyser_url.kind = "str" THEN env.geyser_url.val ELSE None,
         rpc_poll_interval_ms |-> parse_env(env.rpc_poll_interval_ms, DefaultPollMs),
         scout_interval_ms |-> parse_env(env.scout_interval_ms, DefaultScoutMs),
         scout_lookahead_slots |-> parse_env(env.scout_lookahead_slots, DefaultLookahead),
         monitor_interval_ms |-> parse_env(env.monitor_interval_ms, DefaultMonitorMs),
         geyser_reconnect_delay_ms |->
             parse_env(env.geyser_reconnect_delay_ms, DefaultReconnectMs),
         geyser_max_reconnect_delay_ms |->
             parse_env(env.geyser_max_reconnect_delay_ms, DefaultMaxReconnectMs),
         quic_keep_alive_secs |-> parse_env(env.quic_keep_alive_secs, DefaultKeepAliveSecs),
         quic_idle_timeout_secs |->
             parse_env(env.quic_idle_timeout_secs, DefaultIdleTimeoutSecs),
         default_compute_unit_limit |->
             parse_env(env.default_compute_unit_limit, DefaultComputeUnitLimit),
         default_priority_fee |-> parse_env(env.default_priority_fee, DefaultPriorityFee)])

\* One call of Config::from_env.
CfIdle == [pc |-> "idle", env |-> None, result |-> None]

FromEnvCall ==
    /\ cf.pc = "idle"
    /\ \E env \in Envs : cf' = [pc |-> "done", env |-> env, result |-> from_env(env)]
    /\ UNCHANGED offConfig

FromEnvReturn ==
    /\ cf.pc = "done"
    /\ cf' = CfIdle
    /\ UNCHANGED offConfig

\* ------------------------------------------------------------------ geyser
\* The task of spawn_geyser_monitor.  pc is "off" until the task is
\* spawned, then "connect" (GeyserListener::connect in progress),
\* "tracking" (start_tracking in progress) or "sleep" (about to sleep
\* retry_delay).  chan is the oneshot channel to main.  History: sent,
\* every result handed to the channel; first, the outcome of the first
\* completed attempt; after, what led to the present or last sleep; waited
\* and before, the length and the cause of the sleep before it; fails, the
\* failed attempts so far, counted up to two.
Unit == "unit"
GeyserError == "GeyserError"

GyOff ==
    [pc |-> "off", retry_delay |-> 0, startup_tx |-> FALSE, chan |-> <<>>,
     initial_delay |-> 0, max_delay |-> 0, sent |-> <<>>, first |-> <<>>,
     after |-> "none", waited |-> 0, before |-> "none", fails |-> 0]

Min(a, b) == IF a < b THEN a ELSE b

\* The state of the task when spawn_geyser_monitor returns the receiver.
spawn_geyser_monitor(initial_delay, max_delay) ==
    [GyOff EXCEPT !.pc = "connect", !.retry_delay = initial_delay,
                  !.startup_tx = TRUE, !.initial_delay = initial_delay,
                  !.max_delay = max_delay]

\* A task that signals after every attempt.
startup_send_each(g, result) ==
    [g EXCEPT !.startup_tx = FALSE, !.chan = Append(@, result),
              !.sent = Append(@, result)]

\* if let Some(tx) = startup_tx.take() { let _ = tx.send(result); }
startup_send(g, result) ==
    IF g.startup_tx
    THEN [g EXCEPT !.startup_tx = FALSE, !.chan = Append(@, result),
                   !.sent = Append(@, result)]
    ELSE g

\* A backoff that doubles without the cap.
backoff_uncapped(retry_delay, max_delay) == retry_delay * 2

\* retry_delay = std::cmp::min(retry_delay * 2, max_delay)
backoff(retry_delay, max_delay) == Min(retry_delay * 2, max_delay)

\* The tasks live as long as the process.
Alive == boot.pc # "exit"

offGeyser ==
    <<routeVars, callVars, shieldVars, parseVars, updVars, lateVars, engineVars, cf, boot, cmd, tx>>

\* GeyserListener::connect returns Ok.
GeyserConnected ==
    /\ Alive
    /\ gy.pc = "connect"
    /\ gy' = [startup_send(gy, Ok(Unit)) EXCEPT
                 !.pc = "tracking",
                 !.retry_delay = gy.initial_delay,
                 !.first = IF @ = <<>> THEN <<TRUE>> ELSE @]
    /\ UNCHANGED offGeyser

\* GeyserListener::connect returns Err.
GeyserRefused ==
    /\ Alive
    /\ gy.pc = "connect"
    /\ gy' = [startup_send(gy, Err(GeyserError)) EXCEPT
                 !.pc = "sleep",
                 !.after = "refused",
                 !.fails = Min(@ + 1, 2),
                 !.first = IF @ = <<>> THEN <<FALSE>> ELSE @]
    /\ UNCHANGED offGeyser

\* start_tracking hands a processed slot to update_slot.
GeyserSlot ==
    /\ Alive
    /\ gy.pc = "tracking"
    /\ \E slot \in Slots : ClockTick(slot)

\* start_tracking returns: the subscription failed, the stream failed or
\* the stream ended.
GeyserStreamEnds ==
    /\ Alive
    /\ gy.pc = "tracking"
    /\ gy' = [gy EXCEPT !.pc = "sleep", !.after = "stream"]
    /\ UNCHANGED offGeyser

\* A task that gives up after two failed attempts.
GeyserSleepGivesUp ==
    /\ Alive
    /\ gy.pc = "sleep"
    /\ gy.fails < 2
    /\ gy' = [gy EXCEPT !.pc = "connect",
                        !.waited = gy.retry_delay,
                        !.before = gy.after,
                        !.retry_delay = backoff(gy.retry_delay, gy.max_delay)]
    /\ UNCHANGED offGeyser

\* tokio::time::sleep(retry_delay) and the doubling after it.
GeyserSleep ==
    /\ Alive
    /\ gy.pc = "sleep"
    /\ gy' = [gy EXCEPT !.pc = "connect",
                        !.waited = gy.retry_delay,
                        !.before = gy.after,
                        !.retry_delay = backoff(gy.retry_delay, gy.max_delay)]
    /\ UNCHANGED offGeyser

\* ------------------------------------------------------------------ main
\* The process from main's first line to its exit.  pc is the step main is
\* about to run; config is the Config main holds; poller tells whether the
\* polling task runs; exit is the exit status once pc = "exit".  History:
\* loaded, the Config as Config::from_env returned it; log, the steps run so
\* far; failed, the step whose error ended main.
Clis == [rpc : {None, "R2"}, geyser : {None, "G2"}, command : {"monitor", "fire", "spam"}]

DefaultEnv ==
    [rpc_url |-> NoUrl, geyser_url |-> NoUrl, rpc_poll_interval_ms |-> Unset,
     scout_interval_ms |-> Unset, scout_lookahead_slots |-> Unset,
     monitor_interval_ms |-> Unset, geyser_reconnect_delay_ms |-> Unset,
     geyser_max_reconnect_delay_ms |-> Unset, quic_keep_alive_secs |-> Unset,
     quic_idle_timeout_secs |-> Unset, default_compute_unit_limit |-> Unset,
     default_priority_fee |-> Unset]

\* The environments main is started in: the streaming endpoint set or not, a
\* poll interval below the minimum or the default, and backoff delays whose
\* doubling meets the cap at, below and above a power of two.
BootEnvs ==
    {[DefaultEnv EXCEPT !.geyser_url = g, !.rpc_poll_interval_ms = p,
                        !.geyser_reconnect_delay_ms = d,
                        !.geyser_max_reconnect_delay_ms = m] :
        g \in {NoUrl, Str("G1")}, p \in {Unset, Num(10)},
        d \in {Unset, Num(3000)}, m \in {Unset, Num(4000)}}

BootIdle ==
    [pc |-> "cli", cli |-> None, config |-> None, loaded |-> None,
     poller |-> FALSE, log |-> <<>>, failed |-> None, exit |-> 0]

\* A main that goes on after an error.
TryIgnoringErrors(b, step, ok, next) ==
    [b EXCEPT !.pc = next, !.log = Append(@, step),
              !.failed = IF ok THEN @ ELSE step]

\* The ? operator in main: an error ends the process with status 1.
Try(b, step, ok, next) ==
    IF ok
    THEN [b EXCEPT !.pc = next, !.log = Append(@, step)]
    ELSE [b EXCEPT !.pc = "exit", !.log = Append(@, step), !.failed = step, !.exit = 1]

offMain ==
    <<routeVars, callVars, shieldVars, parseVars, updVars, lateVars, engineVars, cf, gy, cmd, tx>>

\* Cli::parse
ParseCli ==
    /\ boot.pc = "cli"
    /\ \E cli \in Clis : boot' = [boot EXCEPT !.pc = "config", !.cli = cli]
    /\ UNCHANGED offMain

\* let mut config = Config::from_env().context("Invalid configuration")?
LoadConfig ==
    /\ boot.pc = "config"
    /\ \E env \in BootEnvs :
         LET result == from_env(env)
         IN boot' = IF result.ok
                    THEN [Try(boot, "config", TRUE, "overrides") EXCEPT
                             !.config = result.val, !.loaded = result.val]
                    ELSE Try(boot, "config", FALSE, "overrides")
    /\ UNCHANGED offMain

\* The command-line overrides of --rpc and --geyser.
ApplyOverrides ==
    /\ boot.pc = "overrides"
    /\ boot' = [boot EXCEPT
                  !.pc = "identity",
                  !.config.rpc_url = IF boot.cli.rpc # None THEN boot.cli.rpc ELSE @,
                  !.config.geyser_url =
                      IF boot.cli.geyser # None THEN boot.cli.geyser ELSE @]
    /\ UNCHANGED offMain

\* read_keypair_file(&keypair_path)
LoadIdentity ==
    /\ boot.pc = "identity"
    /\ \E ok \in BOOLEAN : boot' = Try(boot, "identity", ok, "topology")
    /\ UNCHANGED offMain

\* The upstream's answers during startup.
BootClusterAnswers ==
    {Ok(<<Node(<<"K1">>, "A1"), Node(<<"K2">>, "A2")>>), Err(RpcError)}

BootEpochAnswers ==
    {Ok([epoch |-> 0, absolute_slot |-> 1, slot_index |-> 1]),
     Ok([epoch |-> 1, absolute_slot |-> 4, slot_index |-> 1]),
     Err(RpcError)}

BootScheduleAnswers ==
    {Ok([t \in {<<"K1">>, <<"K2">>} |-> IF t = <<"K1">> THEN {0, 1} ELSE {2}]),
     Err(ScheduleUnavailable)}

\* cartographer.refresh_topology().await?
FirstTopology ==
    /\ boot.pc = "topology"
    /\ \E rpc \in BootClusterAnswers :
         /\ refresh_topology(rpc)
         /\ boot' = Try(boot, "topology", rpc.ok, "schedule")
    /\ UNCHANGED <<schedule, current_slot, current_epoch, blocklist, written, gks>>
    /\ UNCHANGED <<shieldVars, parseVars, updVars, lateVars, engineVars, cf, gy, cmd, tx>>

\* cartographer.update_schedule().await?
FirstSchedule ==
    /\ boot.pc = "schedule"
    /\ \E info \in BootEpochAnswers :
         IF info.ok /\ EpochChanged(info.val.epoch, current_epoch)
         THEN \E sched \in BootScheduleAnswers :
                /\ install_schedule(info, sched)
                /\ boot' = Try(boot, "schedule", sched.ok, "clock")
         ELSE /\ UNCHANGED <<schedule, current_epoch, current_slot, written, callVars>>
              /\ boot' = Try(boot, "schedule", info.ok, "clock")
    /\ UNCHANGED <<node_map, blocklist>>
    /\ UNCHANGED <<shieldVars, parseVars, updVars, lateVars, engineVars, cf, gy, cmd, tx>>

\* A start that runs the poller next to the streaming clock.
clock_sources_both(geyser_url) == {"geyser", "poller"}

\* if let Some(ref url) = config.geyser_url { .. } else { .. }
clock_sources(geyser_url) ==
    IF geyser_url # None THEN {"geyser"} ELSE {"poller"}

\* main spawns the clock source; with the streaming clock it then awaits
\* the receiver.
StartClock ==
    /\ boot.pc = "clock"
    /\ LET sources == clock_sources(boot.config.geyser_url)
       IN /\ gy' = IF "geyser" \in sources
                   THEN spawn_geyser_monitor(boot.config.geyser_reconnect_delay_ms,
                                             boot.config.geyser_max_reconnect_delay_ms)
                   ELSE gy
          /\ boot' = [Try(boot, "clock", TRUE,
                          IF "geyser" \in sources THEN "await" ELSE "engine") EXCEPT
                         !.poller = "poller" \in sources]
    /\ UNCHANGED <<routeVars, callVars, shieldVars, parseVars, updVars, lateVars, engineVars, cf, cmd, tx>>

\* spawn_geyser_monitor(..).await: main takes the result off the channel and
\* drops it.
AwaitStartup ==
    /\ boot.pc = "await"
    /\ gy.chan # <<>>
    /\ gy' = [gy EXCEPT !.chan = Tail(@)]
    /\ boot' = [boot EXCEPT !.pc = "engine"]
    /\ UNCHANGED <<routeVars, callVars, shieldVars, parseVars, updVars, lateVars, engineVars, cf, cmd, tx>>

\* The polling task: fetch_rpc_slot, sleep, again.
PollSlot ==
    /\ Alive
    /\ boot.poller
    /\ \E rpc \in OkOf(Slots) \cup {Err(RpcError)} : FetchRpcSlot(rpc)

\* QuicEngine::new(&identity, &config)?
NewEngine ==
    /\ boot.pc = "engine"
    /\ \E ok \in BOOLEAN : boot' = Try(boot, "engine", ok, "scout")
    /\ UNCHANGED offMain

\* tokio::spawn of the Scout loop.
SpawnScout ==
    /\ boot.pc = "scout"
    /\ boot' = Try(boot, "scout", TRUE, "command")
    /\ UNCHANGED offMain

\* match cli.command: the monitor loop never returns; fire and spam parse
\* the recipient first.
Dispatch ==
    /\ boot.pc = "command"
    /\ \E recipient_ok \in BOOLEAN :
         boot' = Try(boot, "command", boot.cli.command = "monitor" \/ recipient_ok,
                     "running")
    /\ UNCHANGED offMain

\* fire_transaction or spam_transactions returns to main.
CommandReturns ==
    /\ boot.pc = "running"
    /\ boot.cli.command # "monitor"
    /\ \E ok \in BOOLEAN :
         boot' = [boot EXCEPT !.pc = "exit", !.exit = IF ok THEN 0 ELSE 1]
    /\ UNCHANGED offMain

\* ------------------------------------------------------------------ send_transaction
\* One QuicEngine::send_transaction call, made by the send path (caller
\* c1).  pc is the step the call is about to run; conn is the session it
\* acquired.  History: log, the steps run with their outcomes; result, what
\* the call returned.
StreamError == "StreamError"
WriteError == "WriteError"
ClosedStreamError == "ClosedStreamError"

TxIdle == [pc |-> "idle", target |-> None, conn |-> 0, log |-> <<>>, result |-> <<>>]

\* A send that goes on after a failed step.
SendStepLenient(t, step, ok, next, error) ==
    [t EXCEPT !.pc = next, !.log = Append(@, [step |-> step, ok |-> ok]),
              !.result = IF next = "done" THEN <<Ok(Unit)>> ELSE @]

\* One step of send_transaction and the ? after it: on an error the call
\* returns it; after the last step the call returns Ok(()).
SendStep(t, step, ok, next, error) ==
    IF ok
    THEN [t EXCEPT !.pc = next, !.log = Append(@, [step |-> step, ok |-> TRUE]),
                   !.result = IF next = "done" THEN <<Ok(Unit)>> ELSE @]
    ELSE [t EXCEPT !.pc = "done", !.log = Append(@, [step |-> step, ok |-> FALSE]),
                   !.result = <<Err(error)>>]

offSend ==
    <<routeVars, callVars, shieldVars, parseVars, updVars, lateVars, engineVars, cf, boot, gy, cmd>>

\* self.get_connection(target) begins.
SendAcquire ==
    /\ tx.pc = "acquire"
    /\ Probe("c1", tx.target)

\* self.get_connection(target).await? has its result.
SendAcquired ==
    /\ tx.pc = "acquire"
    /\ callers["c1"].pc = "done"
    /\ tx' = [SendStep(tx, "acquire", callers["c1"].ok, "open", ConnectionError) EXCEPT
                 !.conn = callers["c1"].conn]
    /\ callers' = [callers EXCEPT !["c1"] = CallerIdle]
    /\ UNCHANGED <<cache, opened, closed, hist>>
    /\ UNCHANGED <<routeVars, callVars, shieldVars, parseVars, updVars, lateVars, cf, boot, gy, cmd>>

\* connection.open_uni().await: fails iff the session is closed.
SendOpenUni ==
    /\ tx.pc = "open"
    /\ tx' = SendStep(tx, "open", tx.conn \notin closed, "write", StreamError)
    /\ UNCHANGED offSend

\* send_stream.write_all(&tx_bytes).await?: fails when the session is closed
\* or the peer stops the stream.
SendWriteAll ==
    /\ tx.pc = "write"
    /\ \E ok \in BOOLEAN :
         /\ ok => tx.conn \notin closed
         /\ tx' = SendStep(tx, "write", ok, "finish", WriteError)
    /\ UNCHANGED offSend

\* send_stream.finish()?: fails when the stream is already closed.
SendFinish ==
    /\ tx.pc = "finish"
    /\ \E ok \in BOOLEAN : tx' = SendStep(tx, "finish", ok, "done", ClosedStreamError)
    /\ UNCHANGED offSend

\* ------------------------------------------------------------------ fire and spam
\* One fire_transaction or spam_transactions call.  pc is the step it is
\* about to run; slot, target and conn are its locals; tasks holds the
\* spawned sends of spam, each with the step it is about to run.  History:
\* missing, get_target returned None; acquires, the sessions it asked the
\* engine for; streams, the substreams its spawned sends opened; per task,
\* which steps succeeded and whether the peer has read the substream to its
\* end; result, what it returned.
ClientError == "ClientError"
NoLeader == "No leader found"

Counts == {1, 2}

CmdIdle ==
    [pc |-> "idle", kind |-> None, count |-> 0, slot |-> 0, target |-> None,
     conn |-> 0, tasks |-> <<>>, missing |-> FALSE, acquires |-> 0, streams |-> 0,
     result |-> <<>>]

\* One spawned send of spam before its first step.
TaskNew ==
    [pc |-> "open", opened |-> FALSE, written |-> FALSE, finished |-> FALSE,
     received |-> FALSE]

\* A loop that spawns one send too few.
spawn_sends_short(count) == [i \in 1..(count - 1) |-> TaskNew]

\* for _ in 0..count { tasks.push(tokio::spawn(..)) }
spawn_sends(count) == [i \in 1..count |-> TaskNew]

offCmd ==
    <<routeVars, callVars, shieldVars, parseVars, updVars, lateVars, engineVars, cf, boot, gy, tx>>

\* The upstream has answered main's refresh_topology before the subcommand.
StartupTopology ==
    /\ cmd.pc = "idle"
    /\ \E rpc \in BootClusterAnswers : RefreshTopology(rpc)

\* The upstream has answered main's update_schedule before the subcommand.
StartupSchedule ==
    /\ cmd.pc = "idle"
    /\ \E info \in BootEpochAnswers : UpdateSchedule(info)

\* main calls fire_transaction or spam_transactions.
CommandCall ==
    /\ cmd.pc = "idle"
    /\ \E kind \in {"fire", "spam"} : \E count \in Counts :
         cmd' = [CmdIdle EXCEPT !.pc = "blockhash", !.kind = kind,
                                !.count = IF kind = "spam" THEN count ELSE 0]
    /\ UNCHANGED offCmd

\* rpc.get_latest_blockhash().await?
GetBlockhash ==
    /\ cmd.pc = "blockhash"
    /\ \E ok \in BOOLEAN :
         cmd' = IF ok
                THEN [cmd EXCEPT !.pc = "slot"]
                ELSE [cmd EXCEPT !.pc = "done", !.result = <<Err(ClientError)>>]
    /\ UNCHANGED offCmd

\* let slot = cartographer.get_known_slot()
ReadSlot ==
    /\ cmd.pc = "slot"
    /\ cmd' = [cmd EXCEPT !.pc = "lookup", !.slot = current_slot]
    /\ UNCHANGED offCmd

\* cartographer.get_target(slot) begins.
CmdLookup ==
    /\ cmd.pc = "lookup"
    /\ GtLookup(cmd.slot)

\* A fire that reports the missing leader as an error.
on_no_leader_strict(kind) == Err(NoLeader)

\* What the call returns when get_target gave None: fire logs and returns
\* Ok(()), spam returns the error of ok_or.
on_no_leader(kind) ==
    IF kind = "fire" THEN Ok(Unit) ELSE Err(NoLeader)

\* cartographer.get_target(slot).await has its result.
CmdTarget ==
    /\ cmd.pc = "lookup"
    /\ gt.pc = "done"
    /\ gt' = GtIdle
    /\ cmd' = IF gt.result = None
              THEN [cmd EXCEPT !.pc = "done", !.missing = TRUE,
                               !.result = <<on_no_leader(cmd.kind)>>]
              ELSE [cmd EXCEPT !.pc = IF cmd.kind = "fire" THEN "send" ELSE "handle",
                               !.target = gt.result]
    /\ UNCHANGED <<routeVars, gul, gks>>
    /\ UNCHANGED <<shieldVars, parseVars, updVars, lateVars, engineVars, cf, boot, gy, tx>>

\* fire: engine.send_transaction(addr, tx_bytes) is called.
SendCall ==
    /\ cmd.pc = "send"
    /\ tx.pc = "idle"
    /\ tx' = [TxIdle EXCEPT !.pc = "acquire", !.target = cmd.target]
    /\ cmd' = [cmd EXCEPT !.pc = "sending", !.acquires = @ + 1]
    /\ UNCHANGED <<routeVars, callVars, shieldVars, parseVars, updVars, lateVars, engineVars, cf, boot, gy>>

\* fire: engine.send_transaction(..).await? has its result.
SendReturn ==
    /\ cmd.pc = "sending"
    /\ tx.pc = "done"
    /\ cmd' = [cmd EXCEPT !.pc = "done", !.result = tx.result]
    /\ tx' = TxIdle
    /\ UNCHANGED <<routeVars, callVars, shieldVars, parseVars, updVars, lateVars, engineVars, cf, boot, gy>>

\* spam: engine.get_connection_handle(target) is called.
HandleCall ==
    /\ cmd.pc = "handle"
    /\ cmd' = [cmd EXCEPT !.pc = "handshake", !.acquires = @ + 1]
    /\ UNCHANGED offCmd

\* spam: get_connection begins.
HandleAcquire ==
    /\ cmd.pc = "handshake"
    /\ Probe("c1", cmd.target)

\* spam: engine.get_connection_handle(target).await? has its result.
HandleReturn ==
    /\ cmd.pc = "handshake"
    /\ callers["c1"].pc = "done"
    /\ cmd' = IF callers["c1"].ok
              THEN [cmd EXCEPT !.pc = "rounds", !.conn = callers["c1"].conn,
                               !.tasks = spawn_sends(cmd.count)]
              ELSE [cmd EXCEPT !.pc = "done", !.result = <<Err(ConnectionError)>>]
    /\ callers' = [callers EXCEPT !["c1"] = CallerIdle]
    /\ UNCHANGED <<cache, opened, closed, hist>>
    /\ UNCHANGED <<routeVars, callVars, shieldVars, parseVars, updVars, lateVars, cf, boot, gy, tx>>

\* spam, one spawned send: conn_clone.open_uni().await; it fails iff the
\* session is closed, and then the send ends.
SpamOpen(i) ==
    /\ cmd.pc = "rounds"
    /\ cmd.tasks[i].pc = "open"
    /\ cmd' = IF cmd.conn \notin closed
              THEN [cmd EXCEPT !.tasks[i].pc = "write", !.tasks[i].opened = TRUE,
                               !.streams = @ + 1]
              ELSE [cmd EXCEPT !.tasks[i].pc = "done"]
    /\ UNCHANGED offCmd

\* spam, one spawned send: stream.write_all(&bytes_clone).await; an error is
\* logged and the send goes on to finish.
SpamWrite(i) ==
    /\ cmd.pc = "rounds"
    /\ cmd.tasks[i].pc = "write"
    /\ \E ok \in BOOLEAN :
         /\ ok => cmd.conn \notin closed
         /\ cmd' = [cmd EXCEPT !.tasks[i].pc = "finish", !.tasks[i].written = ok]
    /\ UNCHANGED offCmd

\* spam, one spawned send: stream.finish().await; an error is logged.
SpamFinish(i) ==
    /\ cmd.pc = "rounds"
    /\ cmd.tasks[i].pc = "finish"
    /\ \E ok \in BOOLEAN :
         cmd' = [cmd EXCEPT !.tasks[i].pc = "done", !.tasks[i].finished = ok]
    /\ UNCHANGED offCmd

\* The peer reads a written and finished substream to its end, while the
\* session is open.
PeerReads(i) ==
    /\ i \in DOMAIN cmd.tasks
    /\ cmd.tasks[i].written /\ cmd.tasks[i].finished
    /\ ~cmd.tasks[i].received
    /\ cmd.conn \notin closed
    /\ cmd' = [cmd EXCEPT !.tasks[i].received = TRUE]
    /\ UNCHANGED offCmd

\* spam: every spawned send is joined.
SpamJoin ==
    /\ cmd.pc = "rounds"
    /\ \A i \in DOMAIN cmd.tasks : cmd.tasks[i].pc = "done"
    /\ cmd' = [cmd EXCEPT !.pc = "done", !.result = <<Ok(Unit)>>]
    /\ UNCHANGED offCmd

\* ------------------------------------------------------------------ update_schedule, step by step
\* Cartographer::update_schedule as concurrent callers run it.  Per call: pc
\* is the step it is about to run; info is the answer to getEpochInfo;
\* stored is the value it loaded from current_epoch; data is the answer to
\* getLeaderSchedule.  lock is the call that holds the write lock of the
\* schedule.  History: asked, the call asked for the leader schedule; wrote,
\* it replaced the schedule; result, what it returned; tag, the call and
\* the epoch that last wrote the schedule and that last stored the epoch.
UpdCallers == {"u1", "u2"}

NoInfo == [epoch |-> 0, absolute_slot |-> 0, slot_index |-> 0]

UpdIdle ==
    [pc |-> "idle", info |-> NoInfo, stored |-> 0, data |-> EmptyMap,
     asked |-> FALSE, wrote |-> FALSE, result |-> <<>>]

UsNew ==
    [calls |-> [c \in UpdCallers |-> UpdIdle], lock |-> None,
     tag |-> [schedule |-> <<>>, epoch |-> <<>>]]

offUpd == <<shieldVars, parseVars, lateVars, engineVars, procVars>>

\* self.rpc.get_epoch_info().await, with map_err and ?
UpdEpochInfo(c, rpc) ==
    /\ us.calls[c].pc = "idle"
    /\ us' = [us EXCEPT !.calls[c] =
                 IF rpc.ok
                 THEN [UpdIdle EXCEPT !.pc = "load", !.info = rpc.val]
                 ELSE [UpdIdle EXCEPT !.pc = "done", !.result = <<Err(RpcError)>>]]
    /\ UNCHANGED <<routeVars, callVars>>
    /\ UNCHANGED offUpd

\* let stored_epoch = self.current_epoch.load(..) and the test on it.
UpdLoad(c) ==
    /\ us.calls[c].pc = "load"
    /\ us' = [us EXCEPT !.calls[c] =
                 IF EpochChanged(us.calls[c].info.epoch, current_epoch)
                 THEN [@ EXCEPT !.pc = "fetch", !.stored = current_epoch]
                 ELSE [@ EXCEPT !.pc = "done", !.stored = current_epoch,
                                !.result = <<Ok(Unit)>>]]
    /\ UNCHANGED <<routeVars, callVars>>
    /\ UNCHANGED offUpd

\* self.rpc.get_leader_schedule(None).await, with map_err, ok_or and ?
UpdFetch(c, sched) ==
    /\ us.calls[c].pc = "fetch"
    /\ us' = [us EXCEPT !.calls[c] =
                 IF sched.ok
                 THEN [@ EXCEPT !.pc = "lock", !.asked = TRUE, !.data = sched.val]
                 ELSE [@ EXCEPT !.pc = "done", !.asked = TRUE,
                                !.result = <<Err(sched.val)>>]]
    /\ UNCHANGED <<routeVars, callVars>>
    /\ UNCHANGED offUpd

\* A lock that lets a second writer in.
write_lock_free_always(holder) == TRUE

\* RwLock::write resolves when no one holds the lock.
write_lock_free(holder) == holder = None

\* let mut schedule_guard = self.schedule.write().await
UpdLock(c) ==
    /\ us.calls[c].pc = "lock"
    /\ write_lock_free(us.lock)
    /\ us' = [us EXCEPT !.lock = c, !.calls[c].pc = "write"]
    /\ UNCHANGED <<routeVars, callVars>>
    /\ UNCHANGED offUpd

\* A write that inserts the new entries into the stored schedule.
written_schedules_merging(old, data, start_slot) ==
    {[a \in (DOMAIN old) \cup (DOMAIN new) |->
         IF a \in DOMAIN new THEN new[a] ELSE old[a]] :
        new \in NewSchedules(data, start_slot)}

\* *schedule_guard = new_schedule, new_schedule being built by the
\* inversion loop.
written_schedules(old, data, start_slot) == NewSchedules(data, start_slot)

UpdWrite(c) ==
    /\ us.calls[c].pc = "write"
    /\ LET call == us.calls[c]
       IN /\ schedule' \in written_schedules(schedule, call.data,
                               call.info.absolute_slot - call.info.slot_index)
          /\ us' = [us EXCEPT !.calls[c].pc = "epoch", !.calls[c].wrote = TRUE,
                              !.tag.schedule = <<c, call.info.epoch>>]
    /\ gt' = Touch(gt)
    /\ gul' = Touch(gul)
    /\ UNCHANGED <<node_map, current_slot, current_epoch, blocklist, written, gks>>
    /\ UNCHANGED offUpd

\* self.current_epoch.store(current_epoch, ..)
UpdStoreEpoch(c) ==
    /\ us.calls[c].pc = "epoch"
    /\ current_epoch' = us.calls[c].info.epoch
    /\ us' = [us EXCEPT !.calls[c].pc = "slot",
                        !.tag.epoch = <<c, us.calls[c].info.epoch>>]
    /\ UNCHANGED <<node_map, schedule, current_slot, blocklist, written, callVars>>
    /\ UNCHANGED offUpd

\* self.update_slot(epoch_info.absolute_slot); the guard is dropped at the
\* end of the block and the call returns Ok(()).
UpdSeedSlot(c) ==
    /\ us.calls[c].pc = "slot"
    /\ update_slot(us.calls[c].info.absolute_slot)
    /\ us' = [us EXCEPT !.calls[c].pc = "done", !.calls[c].result = <<Ok(Unit)>>,
                        !.lock = None]
    /\ UNCHANGED <<node_map, schedule, current_epoch, blocklist, gt, gul>>
    /\ UNCHANGED offUpd

\* The caller takes the result.
UpdReturn(c) ==
    /\ us.calls[c].pc = "done"
    /\ us' = [us EXCEPT !.calls[c] = UpdIdle]
    /\ UNCHANGED <<routeVars, callVars>>
    /\ UNCHANGED offUpd

\* get_target's first step waits for the schedule's lock.
UpdReaderLookup ==
    /\ us.lock = None
    /\ \E slot \in Slots : GtLookup(slot)

\* The upstream's answers to the concurrent calls: an epoch and the one
\* after it; a schedule of two leaders, one with a key text that does not
\* parse, and the two failures.
UpdEpochAnswers == BootEpochAnswers

UpdScheduleAnswers ==
    {Ok([t \in {<<"K1">>, <<"K2">>} |-> IF t = <<"K1">> THEN {0, 1} ELSE {2}]),
     Ok([t \in {<<"K2">>, <<BAD>>} |-> IF t = <<"K2">> THEN {0} ELSE {1}]),
     Err(RpcError), Err(ScheduleUnavailable)}

\* ------------------------------------------------------------------ later state
\* ------------------------------------------------------------------ GeyserListener::connect
InvalidUri == "InvalidUri"
TransportError == "TransportError"

\* Longest run of token characters in a path.
MaxPathLen == 12

\* The path length above which connect takes the path for a token.
TokenPathLen == 10

SLASH == "/"
QMARK == "?"

RECURSIVE Run(_, _)
Run(ch, n) == IF n = 0 THEN <<>> ELSE <<ch>> \o Run(ch, n - 1)

\* The path-and-query texts of the endpoints: one or two separators, a run
\* of path characters, and a query or none.
PathTexts ==
    {Run(SLASH, s) \o Run("t", n) \o q :
        s \in {1, 2}, n \in 0..MaxPathLen, q \in {<<>>, <<QMARK, "q">>}}

\* The endpoints given to connect: a text that parses as a Uri with its
\* scheme (or none), its authority (or none) and its path and query, and a
\* text that does not parse.
Endpoints ==
    [parses : {TRUE}, scheme : {"https", "http"}, authority : {"H1"}, pq : PathTexts]
    \cup [parses : {TRUE}, scheme : {None}, authority : {None},
          pq : {Run(SLASH, 1) \o Run("t", n) : n \in {3, MaxPathLen}}]
    \cup [parses : {FALSE}, scheme : {None}, authority : {None}, pq : {<<>>}]

\* str::trim_start_matches('/')
RECURSIVE trim_start_matches(_)
trim_start_matches(s) ==
    IF s # <<>> /\ Head(s) = SLASH THEN trim_start_matches(Tail(s)) ELSE s

\* path_str.len() > 10
takes_token(pq) == Len(pq) > TokenPathLen

\* connect up to the channel: the token and the endpoint to dial, or the
\* InvalidUri of a long path without an authority.
extract_token(endpoint) ==
    IF endpoint.parses /\ takes_token(endpoint.pq)
    THEN IF endpoint.authority = None
         THEN Err(InvalidUri)
         ELSE Ok([x_token |-> <<trim_start_matches(endpoint.pq)>>,
                  endpoint |-> [endpoint EXCEPT
                                  !.scheme = IF @ = None THEN "https" ELSE @,
                                  !.pq = <<>>]])
    ELSE Ok([x_token |-> <<>>, endpoint |-> endpoint])

\* One call of GeyserListener::connect and the requests its client sends:
\* given, the endpoint as passed in; x_token and endpoint, what connect
\* worked out; headers, the x-token metadata of each request sent so far
\* (<<>> for a request without the header).
GcIdle ==
    [pc |-> "idle", given |-> <<>>, x_token |-> <<>>, endpoint |-> <<>>,
     headers |-> <<>>, result |-> <<>>]

\* Requests of one client.
MaxRequests == 2

offConnect ==
    <<routeVars, callVars, shieldVars, parseVars, updVars, sm, scout, sn, poll, lk,
      engineVars, procVars>>

\* connect parses the endpoint and takes the token out of it.
ConnectParse(endpoint) ==
    /\ gc.pc = "idle"
    /\ LET parsed == extract_token(endpoint)
       IN gc' = IF parsed.ok
                THEN [gc EXCEPT !.pc = "dial", !.given = <<endpoint>>,
                                !.x_token = parsed.val.x_token,
                                !.endpoint = <<parsed.val.endpoint>>]
                ELSE [gc EXCEPT !.pc = "done", !.given = <<endpoint>>,
                                !.result = <<Err(parsed.val)>>]
    /\ UNCHANGED offConnect

\* Endpoint::from_shared(..).tls_config(..).connect(): the channel is set up
\* or the call fails; an endpoint that did not parse never dials.
ConnectDial(established) ==
    /\ gc.pc = "dial"
    /\ established => gc.endpoint[1].parses
    /\ gc' = IF established
             THEN [gc EXCEPT !.pc = "client", !.result = <<Ok(Unit)>>]
             ELSE [gc EXCEPT !.pc = "done",
                             !.result = <<Err(IF gc.endpoint[1].parses
                                              THEN TransportError ELSE InvalidUri)>>]
    /\ UNCHANGED offConnect

\* AuthInterceptor::call on a request of the client: the token goes in as
\* x-token when there is one.  A path of a parsed Uri holds visible ASCII
\* only, so MetadataValue::from_str takes it.
InterceptRequest ==
    /\ gc.pc = "client"
    /\ Len(gc.headers) < MaxRequests
    /\ gc' = [gc EXCEPT !.headers = Append(@, gc.x_token)]
    /\ UNCHANGED offConnect

\* The listener is dropped, or the error is taken.
ConnectDone ==
    /\ gc.pc \in {"client", "done"}
    /\ gc' = GcIdle
    /\ UNCHANGED offConnect

SmNone == <<>>

\* ------------------------------------------------------------------ start_tracking
\* What the stream delivers: slot updates with a status (0 processed,
\* 1 confirmed, 2 finalized), and messages of another kind or of none.
StreamMessages ==
    [kind : {"slot"}, slot : Slots, status : {0, 1, 2}] \cup
    [kind : {"account", "ping", "none"}, slot : {0}, status : {0}]

\* A client that takes every status for a processed slot.
is_processed_any(status) == TRUE

\* slot_update.status == 0
is_processed(status) == status = 0

\* One turn of start_tracking's loop: the message is taken off the stream,
\* and a slot update of processed status goes to update_slot.
GeyserMessage(msg) ==
    /\ Alive
    /\ gy.pc = "tracking"
    /\ sm' = <<msg>>
    /\ IF msg.kind = "slot" /\ is_processed(msg.status)
       THEN update_slot(msg.slot)
       ELSE UNCHANGED <<current_slot, written, gks>>
    /\ UNCHANGED <<node_map, schedule, current_epoch, blocklist, gt, gul>>
    /\ UNCHANGED <<shieldVars, parseVars, updVars, gc, scout, sn, poll, lk, engineVars, procVars>>

\* The reconnect delays the task is spawned with: initial below, at and
\* above the cap.
StreamDelays == {<<1, 4>>, <<4, 4>>, <<5, 4>>}

\* main spawns the streaming clock.
StreamSpawn ==
    /\ gy.pc = "off"
    /\ \E d \in StreamDelays : gy' = spawn_geyser_monitor(d[1], d[2])
    /\ UNCHANGED offGeyser
\* ------------------------------------------------------------------ polling clock
\* The task main spawns without a streaming endpoint.  pc is "fetch"
\* (fetch_rpc_slot is next) or "sleep".  History: last, the answer to the
\* last getSlot; before, the slot when that call began; calls and fails, the
\* calls and the failures in a row so far, counted up to two.
PollNew ==
    [pc |-> "fetch", last |-> <<>>, before |-> 0, calls |-> 0, fails |-> 0]

offPoll ==
    <<node_map, schedule, current_epoch, blocklist, gt, gul, shieldVars, parseVars,
      updVars, gc, sm, scout, sn, lk, engineVars, procVars>>

\* if let Err(e) = cart_clone.fetch_rpc_slot().await { debug!(..) }
PollFetch(rpc) ==
    /\ poll.pc = "fetch"
    /\ fetch_rpc_slot(rpc)
    /\ poll' = [pc |-> "sleep", last |-> <<rpc>>, before |-> current_slot,
                calls |-> Min(poll.calls + 1, 2),
                fails |-> IF rpc.ok THEN 0 ELSE Min(poll.fails + 1, 2)]
    /\ UNCHANGED offPoll

\* tokio::time::sleep(poll_interval).await, and round the loop
PollSleep ==
    /\ poll.pc = "sleep"
    /\ poll' = [poll EXCEPT !.pc = "fetch"]
    /\ UNCHANGED <<current_slot, written, gks>>
    /\ UNCHANGED offPoll

\* ------------------------------------------------------------------ Scout
\* The Scout task of main.  pc is "off" until the task is spawned, then
\* "read" (get_known_slot is next), "list" (get_upcoming_leaders is next),
\* "warm" (the call for upcoming[idx] is next) or "sleep".  slot and
\* upcoming are the tick's locals.  History: log, the calls of
\* get_connection_handle made in this tick with their outcome.
ScoutOff ==
    [pc |-> "off", lookahead |-> 0, slot |-> 0, upcoming |-> <<>>, idx |-> 1,
     log |-> <<>>]

offScout ==
    <<routeVars, callVars, shieldVars, parseVars, updVars, gc, sm, sn, poll, lk,
      engineVars, procVars>>

\* tokio::spawn of the Scout loop, with config.scout_lookahead_slots.
ScoutStart ==
    /\ scout.pc = "off"
    /\ \E lookahead \in 1..MaxLookahead :
          scout' = [ScoutOff EXCEPT !.pc = "read", !.lookahead = lookahead]
    /\ UNCHANGED offScout

\* let current_slot = cart_clone.get_known_slot(); if current_slot > 0
ScoutRead ==
    /\ scout.pc = "read"
    /\ scout' = [scout EXCEPT !.pc = IF current_slot > 0 THEN "list" ELSE "sleep",
                              !.slot = current_slot, !.upcoming = <<>>,
                              !.idx = 1, !.log = <<>>]
    /\ UNCHANGED offScout

\* let upcoming = cart_clone.get_upcoming_leaders(current_slot, lookahead).await
ScoutList ==
    /\ scout.pc = "list"
    /\ LET upcoming == ScoutLoop(1, scout.slot, scout.lookahead, <<>>)
       IN scout' = [scout EXCEPT !.pc = IF upcoming = <<>> THEN "sleep" ELSE "warm",
                                 !.upcoming = upcoming]
    /\ UNCHANGED offScout

\* A Scout that ends the tick at the first failure.
warm_goes_on_if_ok(ok) == ok

\* let _ = engine_clone.get_connection_handle(target).await: the result is
\* dropped and the for loop goes on.
warm_goes_on(ok) == TRUE

\* One turn of the for loop: get_connection_handle(target) returns.
ScoutWarm(ok) ==
    /\ scout.pc = "warm"
    /\ scout' = [scout EXCEPT
                   !.log = Append(@, [addr |-> scout.upcoming[scout.idx], ok |-> ok]),
                   !.idx = @ + 1,
                   !.pc = IF warm_goes_on(ok) /\ scout.idx < Len(scout.upcoming)
                          THEN "warm" ELSE "sleep"]
    /\ UNCHANGED offScout

\* tokio::time::sleep(scout_interval).await, and round the loop
ScoutSleep ==
    /\ scout.pc = "sleep"
    /\ scout' = [scout EXCEPT !.pc = "read"]
    /\ UNCHANGED offScout
\* ------------------------------------------------------------------ get_target beside writers
\* The answer of the routing rule for slot S on given tables.
RuleAnswer(S, sch, bl, nm) ==
    LET k == MapGet(sch, S)
    IN IF k = None \/ k \in bl THEN None ELSE MapGet(nm, k)

\* History of the get_target call in progress: seen, the answers of the
\* rule for the call's slot at the moments before and after each write
\* made during the call; free, whether the leader found in step 1 was off
\* the blocklist at one of these moments; writes, whether there was any.
SnIdle == [seen |-> {}, free |-> FALSE, writes |-> FALSE]

\* The history after a step that wrote the tables.
Observed ==
    IF gt.pc = "idle" THEN SnIdle
    ELSE [seen |-> sn.seen \cup {RuleAnswer(gt.slot, schedule, blocklist, node_map),
                                 RuleAnswer(gt.slot, schedule', blocklist', node_map')},
          free |-> sn.free \/ gt.key \notin blocklist \/ gt.key \notin blocklist',
          writes |-> TRUE]

offSnap ==
    <<shieldVars, parseVars, updVars, gc, sm, scout, poll, lk, engineVars, procVars>>

\* A writer replaces one table while the call is between two of its steps:
\* refresh_topology the node map, update_schedule the schedule, a blocklist
\* swap the set.
SnWrite ==
    /\ \/ /\ \E rpc \in OkOf(ClusterResponses) : refresh_topology(rpc)
          /\ UNCHANGED <<schedule, current_slot, current_epoch, blocklist, written, gks>>
       \/ /\ \E info \in OkOf(EpochInfos) : \E sched \in BootScheduleAnswers :
                 sched.ok /\ install_schedule(info, sched)
          /\ UNCHANGED <<node_map, blocklist>>
       \/ /\ \E f \in OkOf(FileContents) : LoadLocalFrom(f)
          /\ UNCHANGED <<node_map, schedule, current_slot, current_epoch, written, gks>>
    /\ sn' = Observed
    /\ UNCHANGED offSnap

\* The caller takes the result, and the history of the call ends.
SnReturn ==
    /\ gt.pc = "done"
    /\ gt' = GtIdle
    /\ sn' = SnIdle
    /\ UNCHANGED <<routeVars, gul, gks>>
    /\ UNCHANGED offSnap
\* ------------------------------------------------------------------ the locks of the routing state
\* The calls that take the locks, and what each does with them in order:
\* R takes a read guard, W the write guard, U drops the guard.
LkProcs ==
    {"get_target", "get_upcoming_leaders", "refresh_topology", "update_schedule",
     "swap"}

Op(kind, lock) == [kind |-> kind, lock |-> lock]

\* A get_target that keeps the blocklist's guard while it resolves.
get_target_guards_nested ==
    <<Op("R", "schedule"), Op("U", "schedule"), Op("R", "blocklist"),
      Op("R", "node_map"), Op("U", "node_map"), Op("U", "blocklist")>>

\* get_target: each guard lives in its own block.
get_target_guards ==
    <<Op("R", "schedule"), Op("U", "schedule"), Op("R", "blocklist"),
      Op("U", "blocklist"), Op("R", "node_map"), Op("U", "node_map")>>

\* get_upcoming_leaders: the three guards are taken in this order and live
\* to the end of the function, where they drop in reverse order.
get_upcoming_leaders_guards ==
    <<Op("R", "schedule"), Op("R", "node_map"), Op("R", "blocklist"),
      Op("U", "blocklist"), Op("U", "node_map"), Op("U", "schedule")>>

\* refresh_topology, update_schedule and the blocklist swap: one write guard.
writer_guards(lock) == <<Op("W", lock), Op("U", lock)>>

Guards(p) ==
    CASE p = "get_target" -> get_target_guards
      [] p = "get_upcoming_leaders" -> get_upcoming_leaders_guards
      [] p = "refresh_topology" -> writer_guards("node_map")
      [] p = "update_schedule" -> writer_guards("schedule")
      [] p = "swap" -> writer_guards("blocklist")

\* at is the position of a call in its list (0: no call in progress); a
\* writer that waits for its guard is queued in the lock.
LkNew ==
    [locks |-> [l \in {"schedule", "node_map", "blocklist"} |-> LockFree],
     at |-> [p \in LkProcs |-> 0]]

offLocks ==
    <<routeVars, callVars, shieldVars, parseVars, updVars, gc, sm, scout, sn, poll,
      engineVars, procVars>>

\* The operation call p is at.
LkOp(p) == Guards(p)[lk.at[p]]

LkBusy(p) == lk.at[p] \in 1..Len(Guards(p))

\* A call begins.
LkCall(p) ==
    /\ lk.at[p] = 0
    /\ lk' = [lk EXCEPT !.at[p] = 1]
    /\ UNCHANGED offLocks

\* write().await: the writer queues, and keeps new readers out from now on.
LkRequest(p) ==
    /\ LkBusy(p)
    /\ LkOp(p).kind = "W"
    /\ lk.locks[LkOp(p).lock].writer = "none"
    /\ lk' = [lk EXCEPT !.locks[LkOp(p).lock].writer = "waiting"]
    /\ UNCHANGED offLocks

\* read().await or write().await resolves: a reader when no writer holds or
\* waits, the queued writer when the last reader has gone.
LkGrant(p) ==
    /\ LkBusy(p)
    /\ LET op == LkOp(p)
           lock == lk.locks[op.lock]
       IN \/ /\ op.kind = "R"
             /\ lock.writer = "none"
             /\ lk' = [lk EXCEPT !.locks[op.lock].readers = @ + 1, !.at[p] = @ + 1]
          \/ /\ op.kind = "W"
             /\ lock.writer = "waiting"
             /\ lock.readers = 0
             /\ lk' = [lk EXCEPT !.locks[op.lock].writer = "held", !.at[p] = @ + 1]
    /\ UNCHANGED offLocks

\* A guard is dropped.
LkRelease(p) ==
    /\ LkBusy(p)
    /\ LET op == LkOp(p)
       IN /\ op.kind = "U"
          /\ lk' = IF lk.locks[op.lock].writer = "held"
                   THEN [lk EXCEPT !.locks[op.lock].writer = "none", !.at[p] = @ + 1]
                   ELSE [lk EXCEPT !.locks[op.lock].readers = @ - 1, !.at[p] = @ + 1]
    /\ UNCHANGED offLocks

\* Guards call p holds before the operation at position n.
RECURSIVE LkHeld(_, _)
LkHeld(p, n) ==
    IF n <= 1 THEN 0
    ELSE LkHeld(p, n - 1) + (IF Guards(p)[n - 1].kind = "U" THEN -1 ELSE 1)

\* get_target leaves early: no leader for the slot, or the leader is
\* blocked. It holds no guard when it does.
LkEarly(p) ==
    /\ p = "get_target"
    /\ lk.at[p] \in 2..Len(Guards(p))
    /\ LkHeld(p, lk.at[p]) = 0
    /\ lk' = [lk EXCEPT !.at[p] = Len(Guards(p)) + 1]
    /\ UNCHANGED offLocks

\* The call returns.
LkReturn(p) ==
    /\ lk.at[p] = Len(Guards(p)) + 1
    /\ lk' = [lk EXCEPT !.at[p] = 0]
    /\ UNCHANGED offLocks


\* The state after construction, but for the configured remote URL.
Start ==
    /\ node_map = EmptyMap
    /\ schedule = EmptyMap
    /\ current_slot = 0
    /\ current_epoch = 0
    /\ blocklist = {}
    /\ gt = GtIdle
    /\ gul = GulIdle
    /\ gks = GksIdle
    /\ written = <<>>
    /\ file = Err(NotFound)
    /\ bl_lock = LockFree
    /\ mgr = MgrNew
    /\ rd = RdIdle
    /\ swap = [pre |-> {}, post |-> {}]
    /\ pb = PbIdle
    /\ cache = EmptyMap
    /\ opened = 0
    /\ closed = {}
    /\ callers = [c \in Callers |-> CallerIdle]
    /\ hist = [last |-> EmptyMap, cold |-> Addrs, ok |-> {}]
    /\ cf = CfIdle
    /\ boot = BootIdle
    /\ gy = GyOff
    /\ cmd = CmdIdle
    /\ tx = TxIdle
    /\ us = UsNew
    /\ gc = GcIdle
    /\ sm = SmNone
    /\ scout = ScoutOff
    /\ sn = SnIdle
    /\ poll = PollNew
    /\ lk = LkNew

\* BlocklistManager::new: local-only.
Init == Start /\ remote_url = FALSE

\* BlocklistManager::from_env: the remote URL is set or not.
InitShield == Start /\ remote_url \in BOOLEAN

Writers ==
    \/ \E rpc \in OkOf(ClusterResponses) \cup {Err(RpcError)} : RefreshTopology(rpc)
    \/ \E info \in OkOf(EpochInfos) \cup {Err(RpcError)} : UpdateSchedule(info)
    \/ ShieldReload

NextTarget ==
    \/ Writers
    \/ \E slot \in Slots : GtLookup(slot)
    \/ GtShield
    \/ GtResolve
    \/ GtReturn

SpecTarget == Init /\ [][NextTarget]_vars

NextScout ==
    \/ Writers
    \/ \E current \in Slots : \E lookahead \in 0..MaxLookahead :
          GetUpcomingLeaders(current, lookahead)
    \/ GulReturn

SpecScout == Init /\ [][NextScout]_vars

NextClock ==
    \/ \E slot \in Slots : ClockTick(slot)
    \/ \E rpc \in OkOf(Slots) \cup {Err(RpcError)} : FetchRpcSlot(rpc)
    \/ \E info \in OkOf(EpochInfos) \cup {Err(RpcError)} : UpdateSchedule(info)
    \/ GetKnownSlot
    \/ GksReturn

SpecClock == Init /\ [][NextClock]_vars

NextShield ==
    \/ LoadLocalCall
    \/ LoadRead
    \/ LoadReturn
    \/ SpawnUpdater
    \/ Wake
    \/ \E ans \in RemoteAnswers : FetchRespond(ans)
    \/ \E written_ok \in BOOLEAN : Persist(written_ok)
    \/ FetchReturn
    \/ SwapAcquire
    \/ SwapTear
    \/ SwapStore
    \/ SwapRelease
    \/ \E f \in OkOf(FileContents) \cup {Err(NotFound), Err(PermissionDenied)} : EditFile(f)
    \/ \E ks \in (SUBSET Keys) \ {{}} : ReadAcquire(ks)
    \/ \E k \in Keys : ReadContains(k)
    \/ ReadRelease

SpecShield == InitShield /\ [][NextShield]_vars

NextParse ==
    \/ ParseCall
    \/ ParseReturn

SpecParse == Init /\ [][NextParse]_vars

NextEngine ==
    \/ \E c \in Callers : \E addr \in Addrs : Probe(c, addr)
    \/ \E c \in Callers : Remove(c)
    \/ \E c \in Callers : \E established \in BOOLEAN : Handshake(c, established)
    \/ \E c \in Callers : Insert(c)
    \/ \E c \in Callers : Return(c)
    \/ \E c \in Callers : Finish(c)
    \/ \E s \in 1..MaxSessions : Close(s)

SpecEngine == Init /\ [][NextEngine]_vars

NextConfig ==
    \/ FromEnvCall
    \/ FromEnvReturn

SpecConfig == Init /\ [][NextConfig]_vars

\* main from its first line to the running subcommand, with the clock
\* source it starts.
NextBoot ==
    \/ ParseCli
    \/ LoadConfig
    \/ ApplyOverrides
    \/ LoadIdentity
    \/ FirstTopology
    \/ FirstSchedule
    \/ StartClock
    \/ AwaitStartup
    \/ PollSlot
    \/ GeyserConnected
    \/ GeyserRefused
    \/ GeyserSlot
    \/ GeyserStreamEnds
    \/ GeyserSleep
    \/ NewEngine
    \/ SpawnScout
    \/ Dispatch
    \/ CommandReturns

SpecBoot == Init /\ [][NextBoot]_vars

\* refresh_topology with every answer of the upstream, against get_target
\* and get_upcoming_leaders over a schedule installed at startup.
NextTopology ==
    \/ \E rpc \in OkOf(ClusterResponses) \cup {Err(RpcError)} : RefreshTopology(rpc)
    \/ (schedule = EmptyMap /\ StartupSchedule)
    \/ GtLookup(current_slot)
    \/ GtShield
    \/ GtResolve
    \/ GtReturn
    \/ GetUpcomingLeaders(current_slot, 2)
    \/ GulReturn

SpecTopology == Init /\ [][NextTopology]_vars

\* Two concurrent update_schedule calls, step by step, and a get_target
\* that reads the schedule.
NextSchedule ==
    \/ \E c \in UpdCallers : \E rpc \in UpdEpochAnswers : UpdEpochInfo(c, rpc)
    \/ \E c \in UpdCallers : UpdLoad(c)
    \/ \E c \in UpdCallers : \E sched \in UpdScheduleAnswers : UpdFetch(c, sched)
    \/ \E c \in UpdCallers : UpdLock(c)
    \/ \E c \in UpdCallers : UpdWrite(c)
    \/ \E c \in UpdCallers : UpdStoreEpoch(c)
    \/ \E c \in UpdCallers : UpdSeedSlot(c)
    \/ \E c \in UpdCallers : UpdReturn(c)
    \/ UpdReaderLookup
    \/ GtShield
    \/ GtResolve
    \/ GtReturn

SpecSchedule == Init /\ [][NextSchedule]_vars

\* The streaming clock alone, message by message.
NextStream ==
    \/ StreamSpawn
    \/ GeyserConnected
    \/ GeyserRefused
    \/ \E msg \in StreamMessages : GeyserMessage(msg)
    \/ GeyserStreamEnds
    \/ GeyserSleep

SpecStream == Init /\ [][NextStream]_vars

\* The Scout task beside the writers of the tables and the clock.
NextScoutTask ==
    \/ ScoutStart
    \/ ScoutRead
    \/ ScoutList
    \/ \E ok \in BOOLEAN : ScoutWarm(ok)
    \/ ScoutSleep
    \/ \E rpc \in OkOf(ClusterResponses) : RefreshTopology(rpc)
    \/ (schedule = EmptyMap /\ StartupSchedule)
    \/ \E slot \in Slots : ClockTick(slot)

SpecScoutTask == Init /\ [][NextScoutTask]_vars

\* One get_target call at a time beside the writers of the three tables.
NextSnapshot ==
    \/ \E slot \in Slots : GtLookup(slot)
    \/ GtShield
    \/ GtResolve
    \/ SnReturn
    \/ SnWrite

SpecSnapshot == Init /\ [][NextSnapshot]_vars

NextLocks ==
    \/ \E p \in LkProcs : LkCall(p)
    \/ \E p \in LkProcs : LkRequest(p)
    \/ \E p \in LkProcs : LkGrant(p)
    \/ \E p \in LkProcs : LkRelease(p)
    \/ \E p \in LkProcs : LkEarly(p)
    \/ \E p \in LkProcs : LkReturn(p)

SpecLocks == Init /\ [][NextLocks]_vars

\* The same with a running call never left behind: a guard is dropped and a
\* call returns as soon as it can, a writer queues as soon as it can, and
\* the locks are fair, so a guard that can be granted again and again is
\* granted.
SpecLocksLive ==
    /\ Init /\ [][NextLocks]_vars
    /\ \A p \in LkProcs :
          /\ WF_vars(LkRequest(p))
          /\ SF_vars(LkGrant(p))
          /\ WF_vars(LkRelease(p))
          /\ WF_vars(LkReturn(p))

NextPoll ==
    \/ \E rpc \in OkOf(Slots) \cup {Err(RpcError)} : PollFetch(rpc)
    \/ PollSleep

SpecPoll == Init /\ [][NextPoll]_vars

NextConnect ==
    \/ \E endpoint \in Endpoints : ConnectParse(endpoint)
    \/ \E established \in BOOLEAN : ConnectDial(established)
    \/ InterceptRequest
    \/ ConnectDone

SpecConnect == Init /\ [][NextConnect]_vars

\* The same with the timers firing and every connection attempt ending.
SpecStreamLive ==
    /\ Init /\ [][NextStream]_vars
    /\ WF_vars(GeyserSleep)
    /\ WF_vars(GeyserConnected \/ GeyserRefused)

\* fire and spam after startup: the tables as startup left them, the clock
\* running, the engine serving the send path.
NextFire ==
    \/ StartupTopology
    \/ StartupSchedule
    \/ \E slot \in Slots : ClockTick(slot)
    \/ CommandCall
    \/ GetBlockhash
    \/ ReadSlot
    \/ CmdLookup
    \/ GtShield
    \/ GtResolve
    \/ CmdTarget
    \/ SendCall
    \/ SendAcquire
    \/ SendAcquired
    \/ SendOpenUni
    \/ SendWriteAll
    \/ SendFinish
    \/ SendReturn
    \/ HandleCall
    \/ HandleAcquire
    \/ HandleReturn
    \/ \E i \in DOMAIN cmd.tasks : SpamOpen(i)
    \/ \E i \in DOMAIN cmd.tasks : SpamWrite(i)
    \/ \E i \in DOMAIN cmd.tasks : SpamFinish(i)
    \/ \E i \in DOMAIN cmd.tasks : PeerReads(i)
    \/ SpamJoin
    \/ Remove("c1")
    \/ \E established \in BOOLEAN : Handshake("c1", established)
    \/ Insert("c1")
    \/ Return("c1")
    \/ \E s \in 1..MaxSessions : Close(s)

SpecFire == Init /\ [][NextFire]_vars

\* ------------------------------------------------------------------ routing claims
\* The routing rule on the present tables: slot S routes to address a.
Routes(S, a) ==
    \E k \in Keys :
        /\ S \in DOMAIN schedule /\ schedule[S] = k
        /\ k \notin blocklist
        /\ k \in DOMAIN node_map /\ node_map[k] = a

\* C1: a get_target(S) call that no writer overlapped returns address a iff
\* the schedule maps S to a key that is not blocked and that the node map
\* maps to a; it returns none in every other case.
C1_GetTargetIffRule ==
    (gt.pc = "done" /\ gt.clean) =>
        /\ gt.result \in Addrs \cup {None}
        /\ \A a \in Addrs : (gt.result = a) <=> Routes(gt.slot, a)
        /\ (gt.result = None) <=> ~(\E a \in Addrs : Routes(gt.slot, a))

\* A call returned an address while the blocklist bans another leader.
C1_Witness ==
    /\ gt.pc = "done" /\ gt.clean /\ gt.result \in Addrs
    /\ blocklist # {}

\* The slots get_upcoming_leaders(cur, k) looks at.
ScoutRange == (gul.cur + 1)..(gul.cur + gul.k)

\* C2: the list of get_upcoming_leaders(cur, k) holds pairwise-distinct
\* addresses, each the get_target of some slot in cur+1..cur+k on the same
\* tables (so never an address owed to a blocked leader).
C2_UpcomingDistinctAndRouted ==
    (gul.pc = "done" /\ gul.clean) =>
        /\ \A i \in 1..Len(gul.result), j \in 1..Len(gul.result) :
              i # j => gul.result[i] # gul.result[j]
        /\ \A i \in 1..Len(gul.result) :
              \E s \in ScoutRange : Routes(s, gul.result[i])

\* A list of one address of a leader who holds two slots of the range,
\* while another leader of the range is blocked.
C2_Witness ==
    /\ gul.pc = "done" /\ gul.clean /\ Len(gul.result) = 1
    /\ \E s \in ScoutRange, t \in ScoutRange :
          s # t /\ Routes(s, gul.result[1]) /\ Routes(t, gul.result[1])
    /\ \E s \in ScoutRange : s \in DOMAIN schedule /\ schedule[s] \in blocklist

\* The first slot of the range that routes to address a.
FirstSlot(a) ==
    CHOOSE s \in ScoutRange :
        Routes(s, a) /\ \A t \in ScoutRange : Routes(t, a) => s <= t

\* C3: the list is complete and in first-encounter order: every address a
\* slot of the range routes to is in it, and a precedes b exactly when the
\* first slot routing to a is before the first slot routing to b.
C3_UpcomingCompleteInOrder ==
    (gul.pc = "done" /\ gul.clean) =>
        /\ \A s \in ScoutRange, a \in Addrs :
              Routes(s, a) => Contains(gul.result, a)
        /\ \A i \in 1..Len(gul.result), j \in 1..Len(gul.result) :
              (i < j) <=> (FirstSlot(gul.result[i]) < FirstSlot(gul.result[j]))

\* Two addresses listed, the first one's leader holding a second slot of
\* the range after the slot that brought in the second address.
C3_Witness ==
    /\ gul.pc = "done" /\ gul.clean /\ Len(gul.result) = 2
    /\ \E s \in ScoutRange :
          Routes(s, gul.result[1]) /\ s > FirstSlot(gul.result[2])

\* C5: the known slot is 0 before any update; a get_known_slot made after
\* update_slot(s) returned, with no slot write since, returns s (so >= s).
C5_KnownSlotIsLastWritten ==
    (gks.pc = "done" /\ gks.clean) =>
        IF written = <<>>
        THEN gks.result = 0
        ELSE gks.result = written[1] /\ gks.result >= written[1]

\* A read that follows an update to a slot below the one stored before it.
C5_Witness ==
    /\ gks.pc = "done" /\ gks.clean /\ written # <<>>
    /\ current_epoch > 0
    /\ gks.result < EpochStart(current_epoch)

\* ------------------------------------------------------------------ blocklist claims
\* Positions i..j of the text are one line: no line feed inside, a line feed
\* or an end of the text on each side.
IsLine(c, i, j) ==
    /\ i = 1 \/ c[i - 1] = NL
    /\ j = Len(c) \/ c[j + 1] = NL
    /\ \A q \in i..j : c[q] # NL

\* The line is the key k with nothing but blanks around it.
HoldsKey(c, i, j, k) ==
    \E p \in i..j : c[p] = k /\ \A q \in (i..j) \ {p} : c[q] = SP

ListedKeys(c) ==
    {k \in Keys : \E i \in 1..Len(c) : \E j \in i..Len(c) :
                     IsLine(c, i, j) /\ HoldsKey(c, i, j, k)}

\* C10: parse_blocklist returns exactly the keys of the lines that, trimmed,
\* are a valid key: blank lines, comment lines and malformed lines add
\* nothing and stop nothing, a repeated key counts once, and the empty text
\* gives the empty set.
C10_ParseKeepsValidLines ==
    pb.pc = "done" =>
        /\ pb.keys = ListedKeys(pb.content)
        /\ pb.content = <<>> => pb.keys = {}

\* A text with a commented-out key, a malformed line and a padded key.
C10_Witness ==
    /\ pb.pc = "done"
    /\ pb.keys = {"K1"}
    /\ \E p, q, r \in 1..Len(pb.content) :
          /\ p < q /\ q < r
          /\ pb.content[p] = HASH /\ pb.content[q] = "K2" /\ pb.content[r] = "K1"
    /\ \E p \in 1..Len(pb.content) : pb.content[p] = SP

\* What a reader saw is what the set S says.
Agrees(seen, S) == \A k \in DOMAIN seen : seen[k] = (k \in S)

\* C4: whatever a reader of the blocklist has looked up under its guard is
\* the answer of the whole set before the swap that runs beside it or of
\* the whole set after it, never of a mixture or of a half-written set.
C4_SwapIsAllOrNothing ==
    rd.pc = "locked" =>
        Agrees(rd.seen, swap.pre) \/ Agrees(rd.seen, swap.post)

\* A reader that has looked both keys up while a writer waits with a set
\* the reader's answers do not fit.
C4_Witness ==
    /\ rd.pc = "locked"
    /\ DOMAIN rd.seen = Keys
    /\ bl_lock.writer = "waiting"
    /\ Agrees(rd.seen, swap.pre)
    /\ ~Agrees(rd.seen, swap.post)

\* C9: a fetch_remote whose response has a non-success status or parses to
\* the empty set returns an error and leaves the set in memory as it was
\* when the fetch began.
C9_RefusedFetchKeepsSet ==
    mgr.refused => mgr.pc = "fetch_err" /\ blocklist = mgr.before

\* An empty remote list refused while keys are blocked.
C9_Witness ==
    /\ mgr.pc = "fetch_err"
    /\ mgr.refused
    /\ mgr.ret = Err(EmptyRemote)
    /\ blocklist # {}

\* ------------------------------------------------------------------ engine claims
Returned(c) == callers[c].pc = "done" /\ callers[c].ok

\* C6 as stated: the second of two successful acquisitions of a target, with
\* no failed one between them, returns a session that is open at the moment
\* it is returned.
C6_SecondHandleOpenAtReturn ==
    \A c \in Callers :
        (Returned(c) /\ callers[c].after_ok) => ~callers[c].stale

\* C6 as amended: that session was open when the call looked at it in the
\* cache, or is the one the call's own handshake has just set up.
C6_SecondHandleOpenWhenObtained ==
    \A c \in Callers :
        (Returned(c) /\ callers[c].after_ok) => callers[c].live

\* A second acquisition answered from the cache with a session that was
\* closed between the look and the return.
C6_Witness ==
    \E c \in Callers :
        /\ Returned(c) /\ callers[c].after_ok
        /\ callers[c].hit /\ callers[c].live /\ callers[c].stale

\* C7: an entry leaves the cache only when its session is closed.
C7_EvictOnlyClosed ==
    [][\A a \in DOMAIN cache : a \notin DOMAIN cache' => cache[a] \in closed]_vars

\* No call for the address is between its probe and its return.
Quiet(a) ==
    \A c \in Callers : callers[c].addr = a => callers[c].pc \in {"idle", "done"}

\* C8: one session per address at most; callers that missed the cache of one
\* target together each get the session of their own handshake, and when
\* all of them have finished the cache holds the session inserted last.
C8_HerdLastInsertWins ==
    /\ \A a \in DOMAIN cache : a \in Addrs /\ cache[a] \in 1..opened
    /\ \A c, d \in Callers :
          (c # d /\ Returned(c) /\ Returned(d) /\ ~callers[c].hit /\ ~callers[d].hit)
              => callers[c].conn # callers[d].conn
    /\ \A a \in hist.cold :
          (Quiet(a) /\ a \in DOMAIN hist.last)
              => a \in DOMAIN cache /\ cache[a] = hist.last[a]

\* ------------------------------------------------------------------ config claims
\* The value in force for a variable: its number, or the default.
InForce(text, default) == IF text.kind = "num" THEN text.val ELSE default

EnvPoll(env) == InForce(env.rpc_poll_interval_ms, DefaultPollMs)
EnvScout(env) == InForce(env.scout_interval_ms, DefaultScoutMs)
EnvMonitor(env) == InForce(env.monitor_interval_ms, DefaultMonitorMs)
EnvReconnect(env) == InForce(env.geyser_reconnect_delay_ms, DefaultReconnectMs)
EnvMaxReconnect(env) == InForce(env.geyser_max_reconnect_delay_ms, DefaultMaxReconnectMs)
EnvKeepAlive(env) == InForce(env.quic_keep_alive_secs, DefaultKeepAliveSecs)
EnvIdleTimeout(env) == InForce(env.quic_idle_timeout_secs, DefaultIdleTimeoutSecs)
EnvComputeUnits(env) == InForce(env.default_compute_unit_limit, DefaultComputeUnitLimit)

IntervalBelowMin(env) ==
    EnvPoll(env) < 50 \/ EnvScout(env) < 50 \/ EnvMonitor(env) < 50

Rejected(says) == ~cf.result.ok /\ cf.result.val.says = says

\* C11 as stated: every violation is an error, with "too low" for an
\* interval below 50 ms and "must be less than" whenever the keep-alive is
\* not below the idle timeout.
C11_ValidationRejects ==
    cf.pc = "done" =>
        /\ IntervalBelowMin(cf.env) => Rejected(TooLow)
        /\ EnvComputeUnits(cf.env) = 0 => ~cf.result.ok
        /\ EnvKeepAlive(cf.env) >= EnvIdleTimeout(cf.env) => Rejected(MustBeLessThan)
        /\ EnvReconnect(cf.env) > EnvMaxReconnect(cf.env) => ~cf.result.ok

\* C11 as amended: the message is that of the first failing check, so
\* "must be less than" is the message when the intervals, the compute-unit
\* limit and a non-zero idle timeout have passed.
C11_ValidationRejectsFirstFailure ==
    cf.pc = "done" =>
        /\ IntervalBelowMin(cf.env) => Rejected(TooLow)
        /\ EnvComputeUnits(cf.env) = 0 => ~cf.result.ok
        /\ EnvKeepAlive(cf.env) >= EnvIdleTimeout(cf.env) =>
              /\ ~cf.result.ok
              /\ (~IntervalBelowMin(cf.env) /\ EnvComputeUnits(cf.env) # 0
                    /\ EnvIdleTimeout(cf.env) # 0) => Rejected(MustBeLessThan)
        /\ EnvReconnect(cf.env) > EnvMaxReconnect(cf.env) => ~cf.result.ok

\* A keep-alive of 15 s against the default idle timeout of 10 s, with a
\* scout interval below the minimum reported first.
C11_Witness ==
    /\ cf.pc = "done"
    /\ EnvKeepAlive(cf.env) >= EnvIdleTimeout(cf.env)
    /\ EnvIdleTimeout(cf.env) # 0
    /\ EnvScout(cf.env) < 50
    /\ Rejected(TooLow)

\* The variables the environment table puts a constraint on.
Constrained ==
    {"rpc_poll_interval_ms", "scout_interval_ms", "monitor_interval_ms",
     "geyser_reconnect_delay_ms", "geyser_max_reconnect_delay_ms",
     "quic_keep_alive_secs", "quic_idle_timeout_secs",
     "default_compute_unit_limit", "default_priority_fee"}

\* Some constrained variable has a text that is no number of its type.
IllTyped(env) == \E v \in Constrained : env[v].kind \in {"neg", "big", "junk"}

\* C12: from_env returns an error whenever a constrained variable is given a
\* value that breaks its constraint or that is no number of the field's
\* type, a negative priority fee included.
C12_FailFastOnEveryConstraint ==
    cf.pc = "done" =>
        ((\/ IllTyped(cf.env)
          \/ IntervalBelowMin(cf.env)
          \/ EnvComputeUnits(cf.env) = 0
          \/ EnvIdleTimeout(cf.env) = 0
          \/ EnvKeepAlive(cf.env) >= EnvIdleTimeout(cf.env)
          \/ EnvReconnect(cf.env) > EnvMaxReconnect(cf.env))
            => ~cf.result.ok)

\* ------------------------------------------------------------------ startup

\* C13: once from_env has returned the Config, no field of the Config main
\* holds differs from the value that from_env validated and returned,
\* whatever the command line says.
C13_ConfigFrozenAfterLoad ==
    (Contains(boot.log, "config") /\ boot.failed # "config") =>
        boot.config = boot.loaded

\* The wait the task is about to sleep.
NextWait == gy.retry_delay

\* C14, as stated: no wait exceeds the maximum; the wait after a connected
\* attempt's stream is the initial delay; the wait after the first failed
\* attempt is the initial delay; the wait after a failed attempt that follows
\* a failed attempt is twice the previous wait, capped.
C14_FirstFailureWaitsInitial ==
    gy.pc = "sleep" =>
        /\ NextWait <= gy.max_delay
        /\ gy.after = "stream" => NextWait = gy.initial_delay
        /\ (gy.after = "refused" /\ gy.fails = 1) => NextWait = gy.initial_delay
        /\ (gy.after = "refused" /\ gy.fails > 1 /\ gy.before = "refused") =>
               NextWait = Min(2 * gy.waited, gy.max_delay)

\* C14, amended: no wait exceeds the maximum; the wait after a connected
\* attempt's stream is the initial delay; the wait after a failed attempt is
\* the initial delay when the task has not waited before, and otherwise
\* twice the previous wait, capped, whether that wait followed a failed
\* attempt or a stream.
C14_BackoffDoublesPreviousWait ==
    gy.pc = "sleep" =>
        /\ NextWait <= gy.max_delay
        /\ gy.after = "stream" => NextWait = gy.initial_delay
        /\ gy.after = "refused" =>
               NextWait = IF gy.before = "none"
                          THEN gy.initial_delay
                          ELSE Min(2 * gy.waited, gy.max_delay)

\* A failed attempt after a failed attempt, with the doubling cut by the
\* cap, in a task that has connected before.
C14_Witness ==
    /\ gy.pc = "sleep"
    /\ gy.after = "refused"
    /\ gy.before = "refused"
    /\ gy.first = <<TRUE>>
    /\ 2 * gy.waited > gy.max_delay
    /\ gy.waited < gy.max_delay
    /\ NextWait = gy.max_delay

\* C15: the task sends at most one startup signal; it has sent it iff its
\* first connection attempt has completed, Ok if that attempt connected and
\* Err if not; and main is past its await only when the first attempt has
\* completed.
C15_StartupSignalOnce ==
    /\ Len(gy.sent) <= 1
    /\ (gy.sent # <<>>) <=> (gy.first # <<>>)
    /\ gy.first = <<TRUE>> => gy.sent = <<Ok(Unit)>>
    /\ gy.first = <<FALSE>> => gy.sent = <<Err(GeyserError)>>
    /\ (gy.pc # "off" /\ boot.pc # "await") => gy.first # <<>>

\* The first attempt failed, main went on, a later attempt connected: one
\* signal, the failure.
C15_Witness ==
    /\ gy.first = <<FALSE>>
    /\ gy.pc = "tracking"
    /\ gy.sent = <<Err(GeyserError)>>
    /\ boot.pc = "running"

\* The clock sources that have been started.
Running ==
    (IF gy.pc # "off" THEN {"geyser"} ELSE {}) \cup
    (IF boot.poller THEN {"poller"} ELSE {})

\* A streaming endpoint is configured, by the environment or by --geyser.
Configured == boot.loaded.geyser_url # None \/ boot.cli.geyser # None

\* C16: before the clock step no clock source runs; from the clock step on
\* exactly one runs, the streaming subscriber iff a streaming endpoint is
\* configured and the poller iff none is.
C16_ExactlyOneClockSource ==
    IF Contains(boot.log, "clock")
    THEN Running = IF Configured THEN {"geyser"} ELSE {"poller"}
    ELSE Running = {}

\* The endpoint comes from the command line only, the first attempt has
\* failed, the task is backing off, and no poller runs.
C16_Witness ==
    /\ Contains(boot.log, "clock")
    /\ boot.loaded.geyser_url = None
    /\ boot.cli.geyser # None
    /\ gy.first = <<FALSE>>
    /\ gy.pc = "sleep"
    /\ Running = {"geyser"}

\* The startup steps in main's order.
Steps ==
    <<"config", "identity", "topology", "schedule", "clock", "engine", "scout", "command">>

\* C19: the steps run so far are a prefix of the startup order; and when
\* config, identity, the first refresh_topology or the first update_schedule
\* failed, the process has ended with a non-zero status, the failed step is
\* the last one run, and neither a clock source nor the engine, the Scout or
\* the subcommand has been started.
C19_StartupFailsFast ==
    /\ Len(boot.log) <= Len(Steps)
    /\ \A i \in 1..Len(boot.log) : boot.log[i] = Steps[i]
    /\ boot.failed \in {"config", "identity", "topology", "schedule"} =>
          /\ boot.pc = "exit"
          /\ boot.exit # 0
          /\ boot.log[Len(boot.log)] = boot.failed
          /\ \A i \in 1..Len(boot.log) :
                boot.log[i] \notin {"clock", "engine", "scout", "command"}
          /\ Running = {}

\* The topology was fetched, the first update_schedule failed, the process
\* has ended.
C19_Witness ==
    /\ boot.failed = "schedule"
    /\ boot.pc = "exit"
    /\ node_map # EmptyMap
    /\ schedule = EmptyMap

\* ------------------------------------------------------------------ sending

\* The steps of send_transaction in the order of the code, and the error
\* each returns.
SendOrder == <<"acquire", "open", "write", "finish">>

SendErrors ==
    [step \in {"acquire", "open", "write", "finish"} |->
        CASE step = "acquire" -> ConnectionError
          [] step = "open" -> StreamError
          [] step = "write" -> WriteError
          [] step = "finish" -> ClosedStreamError]

\* C17: the steps a send_transaction call has run are a prefix of acquire,
\* open, write, finish, each run once; no step runs after a failed one; the
\* call returns Ok iff all four ran and succeeded, and otherwise the error of
\* its last step, the first that failed.
C17_SendStepsInOrder ==
    /\ Len(tx.log) <= Len(SendOrder)
    /\ \A i \in 1..Len(tx.log) : tx.log[i].step = SendOrder[i]
    /\ \A i \in 1..(Len(tx.log) - 1) : tx.log[i].ok
    /\ tx.pc # "done" => tx.result = <<>>
    /\ tx.pc = "done" =>
          /\ Len(tx.result) = 1
          /\ tx.result[1].ok <=>
                (Len(tx.log) = Len(SendOrder) /\ \A i \in 1..Len(tx.log) : tx.log[i].ok)
          /\ ~tx.result[1].ok =>
                /\ ~tx.log[Len(tx.log)].ok
                /\ tx.result[1].val = SendErrors[tx.log[Len(tx.log)].step]

\* The session was acquired and the substream opened, the write failed: the
\* call has returned the write error without finishing.
C17_Witness ==
    /\ tx.pc = "done"
    /\ Len(tx.log) = 3
    /\ tx.log[1].ok /\ tx.log[2].ok /\ ~tx.log[3].ok
    /\ tx.result = <<Err(WriteError)>>

\* C18: when get_target returned None the call has returned at once, fire
\* with Ok and spam with the error, and it has asked the engine for no
\* session: no handshake was attempted, no session exists, no substream was
\* opened, no send_transaction call was made.
C18_NoLeaderNoSend ==
    cmd.missing =>
        /\ cmd.pc = "done"
        /\ cmd.result = <<IF cmd.kind = "fire" THEN Ok(Unit) ELSE Err(NoLeader)>>
        /\ cmd.acquires = 0
        /\ cmd.streams = 0
        /\ tx = TxIdle
        /\ callers["c1"] = CallerIdle
        /\ opened = 0
        /\ cache = EmptyMap

\* fire with both tables filled and the clock on a slot the schedule does
\* not hold.
C18_Witness ==
    /\ cmd.missing
    /\ cmd.kind = "fire"
    /\ cmd.pc = "done"
    /\ node_map # EmptyMap
    /\ schedule # EmptyMap

\* The spawned sends that opened a substream, and those whose substream the
\* peer has read to its end.
Attempted == {i \in DOMAIN cmd.tasks : cmd.tasks[i].pc # "open"}
Completed == {i \in DOMAIN cmd.tasks : cmd.tasks[i].received}

\* C21: spam with count N, once it holds the handle, has asked the engine
\* for one session and at most one handshake was made; it has spawned
\* exactly N sends, each of which makes one open on that session; the peer
\* completes only substreams that a send opened, wrote and finished, each
\* once, so never more than were opened and N when every send succeeded and
\* was read; and when spam returns Ok all N sends have made their attempt.
C21_SpamMultiplexesOneSession ==
    (cmd.kind = "spam" /\ (cmd.pc = "rounds" \/ (cmd.pc = "done" /\ cmd.tasks # <<>>))) =>
        /\ cmd.acquires = 1
        /\ opened <= 1
        /\ DOMAIN cmd.tasks = 1..cmd.count
        /\ cmd.streams = Cardinality({i \in DOMAIN cmd.tasks : cmd.tasks[i].opened})
        /\ cmd.streams <= cmd.count
        /\ \A i \in Completed :
              cmd.tasks[i].opened /\ cmd.tasks[i].written /\ cmd.tasks[i].finished
        /\ Cardinality(Completed) <= cmd.streams
        /\ cmd.pc = "done" => Cardinality(Attempted) = cmd.count

\* Two sends on the one session, both read by the peer, spam has returned.
C21_Witness ==
    /\ cmd.kind = "spam"
    /\ cmd.pc = "done"
    /\ cmd.count = 2
    /\ Cardinality(Completed) = 2
    /\ opened = 1
    /\ cmd.acquires = 1

\* ------------------------------------------------------------------ topology

\* The nodes of an answer that advertise an ingress address, a node being
\* known by its key.
Advertising(nodes) ==
    {i \in 1..Len(nodes) :
        nodes[i].tpu_quic # None /\ PubkeyFromStr(nodes[i].pubkey) # None}

\* m holds exactly the advertising nodes of the answer: one entry per key,
\* with the address the answer lists for it (the last, when it lists two).
HoldsExactly(m, nodes) ==
    /\ DOMAIN m = {PubkeyFromStr(nodes[i].pubkey) : i \in Advertising(nodes)}
    /\ \A k \in DOMAIN m :
          \E i \in Advertising(nodes) :
              /\ PubkeyFromStr(nodes[i].pubkey) = k
              /\ m[k] = nodes[i].tpu_quic
              /\ \A j \in Advertising(nodes) :
                    PubkeyFromStr(nodes[j].pubkey) = k => j <= i

\* C22: a refresh_topology whose upstream call fails leaves the node map as
\* it was; one whose call succeeds leaves a map that holds exactly the
\* advertising nodes of the answer, whatever the map held before; and the
\* stored map, the only one a reader can see, is at every moment empty (as
\* constructed) or such a complete map.
C22_RefreshReplacesWholeMap ==
    /\ [](node_map = EmptyMap \/ \E nodes \in ClusterResponses : HoldsExactly(node_map, nodes))
    /\ [][\A rpc \in OkOf(ClusterResponses) \cup {Err(RpcError)} :
             RefreshTopology(rpc) =>
                 IF rpc.ok
                 THEN HoldsExactly(node_map', rpc.val)
                 ELSE node_map' = node_map]_vars

\* A refresh during a get_target call for K2 has left a map that holds
\* only K1.
C22_Witness ==
    /\ DOMAIN node_map = {"K1"}
    /\ gt.pc = "resolve"
    /\ ~gt.clean
    /\ gt.key = "K2"

\* ------------------------------------------------------------------ schedule refresh

\* The returned epoch differs from the stored one, or the stored one is 0.
FetchDue(call) == call.info.epoch # call.stored \/ call.stored = 0

\* C23: a call that goes on to fetch the schedule found the returned epoch
\* different from the stored one or the stored one zero, and a call that
\* returned Ok without fetching found neither, for a returned epoch below the
\* stored one as for one above it.
C23_RefreshIffEpochDiffers ==
    \A c \in UpdCallers :
        LET call == us.calls[c]
        IN /\ (call.pc \in {"fetch", "lock", "write", "epoch", "slot"} \/ call.asked)
                 => FetchDue(call)
           /\ (call.pc = "done" /\ call.result = <<Ok(Unit)>> /\ ~call.asked)
                 => ~FetchDue(call)

\* The first slot of the epoch of the call's answer.
StartSlot(call) == call.info.absolute_slot - call.info.slot_index

\* m maps start + r to K for every pair (K, r) of the answer, and holds no
\* other slot.
HoldsPairs(m, data, start) ==
    /\ DOMAIN m = {start + r : r \in UNION {data[t] : t \in {x \in DOMAIN data :
                                                  PubkeyFromStr(x) # None}}}
    /\ \A t \in DOMAIN data :
          PubkeyFromStr(t) # None => \A r \in data[t] : m[start + r] = PubkeyFromStr(t)

\* The call has returned after replacing the schedule, and no other call has
\* replaced it since.
Installed(c) ==
    /\ us.calls[c].pc = "done"
    /\ us.calls[c].wrote
    /\ us.tag.schedule[1] = c

\* C25: when a call has refreshed, the stored schedule holds exactly the
\* pairs of its answer shifted by absolute_slot - slot_index, the stored
\* epoch is the returned epoch and the current slot is the returned
\* absolute_slot.
C25_InstalledScheduleIsExact ==
    \A c \in UpdCallers :
        Installed(c) =>
            /\ HoldsPairs(schedule, us.calls[c].data, StartSlot(us.calls[c]))
            /\ current_epoch = us.calls[c].info.epoch
            /\ current_slot = us.calls[c].info.absolute_slot

\* u1 has installed the schedule of epoch 1 over the one u2 installed for
\* epoch 0.
C25_Witness ==
    /\ Installed("u1")
    /\ us.calls["u1"].info.epoch = 1
    /\ us.calls["u2"].pc = "done"
    /\ us.calls["u2"].wrote
    /\ us.calls["u2"].info.epoch = 0
    /\ DOMAIN schedule = {3, 4, 5}

\* C26: a call that returned an error, or that found the stored epoch
\* equal to the returned one and not zero, has written nothing; and the
\* schedule, the stored epoch and the current slot change only in the write
\* steps of a call, which such a call never reaches.
C26_FailedUpdateChangesNothing ==
    /\ [](\A c \in UpdCallers :
             LET call == us.calls[c]
             IN (call.pc = "done" /\
                 (~call.result[1].ok \/
                  (call.info.epoch = call.stored /\ call.stored # 0)))
                    => ~call.wrote)
    /\ [][(schedule' # schedule \/ current_epoch' # current_epoch
              \/ current_slot' # current_slot) =>
             \E c \in UpdCallers :
                 /\ us.calls[c].pc \in {"write", "epoch", "slot"}
                 /\ us'.calls[c].pc # us.calls[c].pc]_vars

\* After a refresh for epoch 1, u1 found the stored epoch current and u2
\* got ScheduleUnavailable: both have returned, the schedule stands.
C26_Witness ==
    /\ us.calls["u1"].pc = "done"
    /\ us.calls["u1"].result = <<Ok(Unit)>>
    /\ us.calls["u1"].info.epoch = 1
    /\ us.calls["u1"].stored = 1
    /\ ~us.calls["u1"].wrote
    /\ schedule # EmptyMap

\* The slots of epoch e.
EpochSlots(ep) == {EpochStart(ep) + r : r \in RelSlots}

\* C27: whenever no call holds the schedule's write lock, the call that last
\* stored the epoch is the call that last replaced the schedule, and the
\* stored epoch is the epoch of that call's answer; and the stored schedule
\* holds slots of one epoch only.
C27_EpochMovesWithSchedule ==
    /\ us.lock = None =>
          (us.tag.schedule # <<>> =>
              /\ us.tag.epoch # <<>>
              /\ us.tag.epoch[1] = us.tag.schedule[1]
              /\ current_epoch = us.tag.schedule[2])
    /\ \E ep \in Epochs : DOMAIN schedule \subseteq EpochSlots(ep)

\* Both calls fetched at once, u2 for epoch 1 and u1 for epoch 0; u2 wrote
\* first and u1 last.
C27_Witness ==
    /\ us.lock = None
    /\ us.calls["u1"].pc = "done" /\ us.calls["u1"].wrote
    /\ us.calls["u2"].pc = "done" /\ us.calls["u2"].wrote
    /\ us.calls["u2"].info.epoch = 1
    /\ us.calls["u1"].info.epoch = 0
    /\ us.tag.schedule = <<"u1", 0>>

\* ------------------------------------------------------------------ acquisition steps
\* The entries of every address but a are the same before and after.
OthersUntouched(a) ==
    \A b \in Addrs \ {a} :
        /\ (b \in DOMAIN cache) = (b \in DOMAIN cache')
        /\ b \in DOMAIN cache => cache'[b] = cache[b]

\* What one step of call c does, by the point the call has reached.
AcquisitionStep(c) ==
    LET old == callers[c]
        new == callers'[c]
    IN CASE old.pc = "idle" ->
              /\ cache' = cache /\ opened' = opened
              /\ IF new.addr \in DOMAIN cache /\ cache[new.addr] \notin closed
                 THEN new.pc = "ret" /\ new.hit /\ new.conn = cache[new.addr]
                 ELSE new.pc = "miss" /\ ~new.hit
         [] old.pc = "miss" ->
              /\ new.pc = "connect" /\ opened' = opened
              /\ old.addr \notin DOMAIN cache'
              /\ OthersUntouched(old.addr)
         [] old.pc = "connect" ->
              /\ cache' = cache
              /\ \/ new.pc = "insert" /\ opened' = opened + 1 /\ new.conn = opened'
                 \/ new.pc = "done" /\ ~new.ok /\ opened' = opened
         [] old.pc = "insert" ->
              /\ new.pc = "ret" /\ opened' = opened
              /\ old.addr \in DOMAIN cache' /\ cache'[old.addr] = old.conn
              /\ OthersUntouched(old.addr)
         [] old.pc = "ret" ->
              /\ new.pc = "done" /\ new.ok /\ new.conn = old.conn
              /\ cache' = cache /\ opened' = opened
         [] OTHER -> cache' = cache /\ opened' = opened

\* A call that has failed.
Failed(c) == callers[c].pc = "done" /\ ~callers[c].ok

\* C24 as stated: each call follows the four steps, touching the entry of its
\* own target only, and when a call has failed on its handshake the cache
\* holds no entry for its target.
C24_FourStepAcquisition ==
    /\ [][\A c \in Callers : callers'[c] # callers[c] => AcquisitionStep(c)]_vars
    /\ [](\A c \in Callers : Failed(c) => callers[c].addr \notin DOMAIN cache)

\* C24 as amended: each call follows the four steps, touching the entry of
\* its own target only; the failing handshake itself leaves the cache as the
\* removal left it, and an entry appears in the cache only by the insert of a
\* call whose own handshake to that target succeeded.
C24_FourStepAcquisitionOwnEntry ==
    /\ [][\A c \in Callers : callers'[c] # callers[c] => AcquisitionStep(c)]_vars
    /\ [](\A c \in Callers : Failed(c) => ~callers[c].hit)
    /\ [][\A a \in Addrs :
             (a \in DOMAIN cache' /\ (a \in DOMAIN cache => cache'[a] # cache[a]))
                => \E d \in Callers :
                      /\ callers[d].pc = "insert" /\ callers[d].addr = a
                      /\ callers'[d].pc = "ret" /\ cache'[a] = callers[d].conn]_vars

\* c1's handshake to A1 has failed after it removed the entry: no entry for
\* A1, and the session cached for A2 still there.
C24_Witness ==
    /\ Failed("c1")
    /\ callers["c1"].addr = "A1"
    /\ "A1" \notin DOMAIN cache
    /\ "A1" \in DOMAIN hist.last
    /\ "A2" \in DOMAIN cache

\* ------------------------------------------------------------------ blocklist file and updater
\* The manager's task leaves the point pc.
Leaves(pc) == mgr.pc = pc /\ mgr'.pc # pc

\* C28: an accepted remote set is written to the local file before the set in
\* memory is touched, and when fetch_remote has returned Ok the set in memory
\* is the fetched set: the step that leaves the persist stage leaves the
\* fetched set in the file, and the set in memory still as it was.
C28_FileWrittenBeforeSwap ==
    /\ [][Leaves("persist") =>
             /\ file'.ok
             /\ parse_blocklist(file'.val) = mgr.keys
             /\ blocklist' = blocklist]_vars
    /\ [](mgr.pc = "fetch_ok" => blocklist = swap.post /\ mgr.ret.ok)

\* The keys of the file as load_from_file reads them.
FileKeys == IF file.ok THEN parse_blocklist(file.val) ELSE {}

\* C29: load_local goes on to replace the set exactly when the file parses
\* to a non-empty set, and then returns the number of keys with the set in
\* memory equal to them; otherwise it returns 0 and no error at once; and the
\* set in memory changes in no step but the replacement under the write lock.
C29_LoadLocalReplacesIffNonEmpty ==
    /\ [][Leaves("load_read") =>
             /\ blocklist' = blocklist
             /\ IF FileKeys # {}
                THEN mgr'.pc = "w_wait" /\ mgr'.op = "load" /\ mgr'.keys = FileKeys
                ELSE mgr'.pc = "load_ret" /\ mgr'.ret = Ok(0)]_vars
    /\ [][blocklist' # blocklist => mgr.pc \in {"w_held", "w_torn"}]_vars
    /\ [](mgr.pc = "load_ret" =>
             /\ mgr.ret.ok
             /\ mgr.ret.val > 0 =>
                   blocklist = swap.post /\ mgr.ret.val = Cardinality(swap.post))

\* A reload that found the file unreadable while keys are blocked: 0, and
\* the keys stay.
C29_Witness ==
    /\ mgr.pc = "load_ret"
    /\ mgr.ret = Ok(0)
    /\ mgr.stage = "loop"
    /\ file = Err(PermissionDenied)
    /\ blocklist = Keys

\* The points of fetch_remote.
FetchPoints == {"fetch_get", "persist", "fetch_ok", "fetch_err"}

\* C30: the updater is always at one of the points of its loop; an interval
\* that ends starts a fetch when a remote URL is configured and a reload
\* when none is; a fetch that failed, the initial one included, is followed
\* by a reload of the local file; and without a remote URL no fetch starts.
C30_UpdaterFollowsSchedule ==
    /\ [][Leaves("sleep") =>
             mgr'.pc = (IF remote_url THEN "fetch_get" ELSE "load_read")]_vars
    /\ [][Leaves("fetch_err") => mgr'.pc = "load_read"]_vars
    /\ [](~remote_url => mgr.pc \notin FetchPoints)

\* ------------------------------------------------------------------ streaming clock claims
Processed(msg) == msg.kind = "slot" /\ msg.status = 0

\* C31: a message taken off the stream leads to update_slot(s) exactly when
\* it is a slot update for s of processed status; any other message leaves
\* the slot alone; so the slot is that of the last processed update taken.
C31_OnlyProcessedSlotsUpdate ==
    /\ [][\A msg \in StreamMessages :
             GeyserMessage(msg) =>
                 IF Processed(msg)
                 THEN current_slot' = msg.slot /\ written' = <<msg.slot>>
                 ELSE current_slot' = current_slot /\ written' = written]_vars
    /\ []((sm # <<>> /\ Processed(sm[1])) => current_slot = sm[1].slot)
    /\ [](written = <<>> => current_slot = 0)

\* A confirmed-status update for another slot came after a processed one and
\* left the slot alone.
C31_Witness ==
    /\ sm # <<>>
    /\ sm[1].kind = "slot" /\ sm[1].status = 1
    /\ current_slot = 2
    /\ sm[1].slot = 4
    /\ written = <<2>>

\* C37: every sleep of the task, after a failed attempt as after a stream
\* that ended, is followed by another connection attempt, and the task is
\* never at an end.
C37_StreamingClockReconnects ==
    /\ (gy.pc = "sleep") ~> (gy.pc = "connect")
    /\ [](gy.pc \in {"off", "connect", "tracking", "sleep"})

\* A third attempt, after two attempts in a row were refused.
C37_Witness ==
    /\ gy.pc = "connect"
    /\ gy.fails = 2
    /\ gy.before = "refused"
    /\ gy.first = <<FALSE>>

\* C32: connect takes a token exactly when the path of the endpoint without
\* its leading separator is longer than 10; the token is then that stripped
\* path, every request carries it as x-token and the endpoint dialled is
\* scheme://authority; otherwise no request carries a token and the
\* endpoint is dialled as given.
C32_TokenIffStrippedPathOver10 ==
    (gc.pc \in {"dial", "client"} /\ gc.given[1].parses) =>
        LET stripped == trim_start_matches(gc.given[1].pq)
        IN IF Len(stripped) > TokenPathLen
           THEN /\ gc.x_token = <<stripped>>
                /\ gc.endpoint[1].scheme = gc.given[1].scheme
                /\ gc.endpoint[1].authority = gc.given[1].authority
                /\ gc.endpoint[1].pq = <<>>
                /\ \A i \in 1..Len(gc.headers) : gc.headers[i] = <<stripped>>
           ELSE /\ gc.x_token = <<>>
                /\ gc.endpoint = gc.given
                /\ \A i \in 1..Len(gc.headers) : gc.headers[i] = <<>>

\* ------------------------------------------------------------------ polling clock claims
\* C33: each tick of the polling task makes one getSlot call; after a call
\* that succeeded the slot is the one returned, after a call that failed it
\* is the slot from before the call; either way the task sleeps and
\* fetches again, after any number of failures.
C33_PollingSurvivesFailures ==
    /\ [](poll.last # <<>> =>
             current_slot = IF poll.last[1].ok THEN poll.last[1].val ELSE poll.before)
    /\ [][/\ poll.pc = "fetch" => poll'.pc = "sleep" /\ poll'.last # <<>>
          /\ poll.pc = "sleep" => poll'.pc = "fetch" /\ poll'.last = poll.last
                                   /\ current_slot' = current_slot]_<<poll, current_slot>>
    /\ [](poll.pc \in {"fetch", "sleep"})

\* The task is about to fetch again after two failed calls in a row, with
\* the slot of the earlier successful call still in place.
C33_Witness ==
    /\ poll.pc = "fetch"
    /\ poll.fails = 2
    /\ current_slot = 3
    /\ written = <<3>>

\* ------------------------------------------------------------------ Scout claims
\* C34: a tick that reads slot 0 makes no call; any other tick calls
\* get_connection_handle once for each address of the list of
\* get_upcoming_leaders(slot, lookahead), in the order of the list, whatever
\* the outcome of the calls before; and every tick ends in the sleep that
\* leads to the next one.
C34_ScoutWarmsEveryListedAddress ==
    /\ [](scout.pc \in {"warm", "sleep"} =>
             /\ Len(scout.log) = scout.idx - 1
             /\ Len(scout.log) <= Len(scout.upcoming)
             /\ \A i \in 1..Len(scout.log) : scout.log[i].addr = scout.upcoming[i])
    /\ [](scout.pc = "sleep" =>
             /\ Len(scout.log) = Len(scout.upcoming)
             /\ scout.slot = 0 => scout.log = <<>>)
    /\ [][/\ (scout.pc = "list" /\ scout'.pc # "list") =>
                scout'.upcoming = ScoutLoop(1, scout.slot, scout.lookahead, <<>>)
          /\ (scout.pc = "read" /\ scout'.pc # "read") =>
                scout'.pc = (IF current_slot = 0 THEN "sleep" ELSE "list")
          /\ (scout.pc = "sleep" /\ scout'.pc # "sleep") => scout'.pc = "read"
          /\ scout.pc # "off" => scout'.pc # "off"]_vars

\* A tick over two addresses whose first call failed and whose second
\* succeeded.
C34_Witness ==
    /\ scout.pc = "sleep"
    /\ Len(scout.upcoming) = 2
    /\ Len(scout.log) = 2
    /\ ~scout.log[1].ok
    /\ scout.log[2].ok

C36_LastSlotWriteWins ==
    /\ [](current_slot = IF written = <<>> THEN 0 ELSE written[1])
    /\ [][\A slot \in Slots : ClockTick(slot) => current_slot' = slot]_vars
    /\ [][\A rpc \in OkOf(Slots) : FetchRpcSlot(rpc) => current_slot' = rpc.val]_vars
    /\ [][current_epoch' # current_epoch =>
             current_slot' \in {EpochStart(current_epoch') + i : i \in RelSlots}]_vars

\* A reader got slot 5, and the slot now stored by a later write is 1.
C36_Witness ==
    /\ gks.pc = "done"
    /\ gks.result = 5
    /\ ~gks.clean
    /\ current_slot = 1
    /\ written = <<1>>

\* ------------------------------------------------------------------ blocklist never emptied
\* The set is not in the middle of being overwritten.
Settled == mgr.pc # "w_torn"

\* C38: every replacement of the set installs a non-empty set, so a set that
\* holds keys holds keys again after every load, reload and fetch, whatever
\* became of the local file and whatever the remote answered; only while a
\* replacement is being written under the write lock is the set undefined.
C38_BlocklistNeverEmptiedAgain ==
    /\ [](mgr.pc \in {"w_wait", "w_held", "w_torn", "w_stored"} => mgr.keys # {})
    /\ [](mgr.pc = "w_stored" => blocklist = mgr.keys)
    /\ [][(Settled /\ Settled' /\ blocklist # {}) => blocklist' # {}]_vars
    /\ [][blocklist' # blocklist => mgr.pc \in {"w_held", "w_torn"}]_<<blocklist, mgr>>

\* The keys stand after the file was deleted, a fetch in the loop failed
\* and the fallback reload found no file.
C38_Witness ==
    /\ remote_url
    /\ blocklist = {"K1"}
    /\ file = Err(NotFound)
    /\ mgr.pc = "load_ret"
    /\ mgr.stage = "loop"
    /\ mgr.ret = Ok(0)

\* ------------------------------------------------------------------ get_target and snapshots
\* The answers of the rule for the call's slot at the moments of the call.
Moments == sn.seen \cup {RuleAnswer(gt.slot, schedule, blocklist, node_map)}

\* C39 as stated: the value a get_target call returns is the answer of the
\* routing rule on the three tables as they stood together at one moment of
\* the call, and never the address of a leader blocked at every moment of
\* the call.
C39_GetTargetMatchesOneSnapshot ==
    gt.pc = "done" =>
        /\ gt.result \in Moments
        /\ gt.result \in Addrs => (sn.free \/ gt.key \notin blocklist)

\* C39 as amended: the call reads the schedule at step 1, the blocklist at
\* step 2 and the node map at step 3, each as it stands at that step: the
\* leader is the schedule's entry at step 1, none is returned if that leader
\* is blocked at step 2, and the address is the node map's entry of that
\* leader at step 3; so it never returns the address of a leader blocked at
\* every moment of the call.
C39_GetTargetReadsEachTableOnce ==
    /\ [][(gt.pc = "idle" /\ gt'.pc # "idle") =>
             /\ gt'.key = MapGet(schedule, gt'.slot)
             /\ gt'.pc = (IF gt'.key = None THEN "done" ELSE "shield")
             /\ gt'.result = None]_vars
    /\ [][(gt.pc = "shield" /\ gt'.pc # "shield") =>
             /\ gt'.pc = (IF gt.key \in blocklist THEN "done" ELSE "resolve")
             /\ gt'.result = None /\ gt'.key = gt.key]_vars
    /\ [][(gt.pc = "resolve" /\ gt'.pc # "resolve") =>
             /\ gt'.pc = "done"
             /\ gt'.result = MapGet(node_map, gt.key)]_vars
    /\ []((gt.pc = "done" /\ gt.result \in Addrs) =>
             (IF sn.writes THEN sn.free ELSE gt.key \notin blocklist))

\* The call returned an address that the rule gave at no moment of the
\* call, for a leader blocked by the time it returned.
C39_Witness ==
    /\ gt.pc = "done"
    /\ gt.result \in Addrs
    /\ gt.result \notin Moments
    /\ gt.key \in blocklist
    /\ sn.free

\* ------------------------------------------------------------------ lock claims
\* C40: with writer-preferring locks, every call that has begun gets each
\* guard it asks for and returns; and a lock is never held by a writer and
\* a reader at once.
C40_RoutingLocksNeverDeadlock ==
    /\ \A p \in LkProcs : (lk.at[p] # 0) ~> (lk.at[p] = 0)
    /\ [](\A l \in DOMAIN lk.locks :
             lk.locks[l].writer = "held" => lk.locks[l].readers = 0)

\* get_upcoming_leaders holds the schedule's and the node map's guards and
\* waits for the blocklist's behind a queued writer, while get_target waits
\* for the node map's behind another.
C40_Witness ==
    /\ lk.at["get_upcoming_leaders"] = 3
    /\ lk.locks["blocklist"].writer = "waiting"
    /\ lk.locks["node_map"].writer = "waiting"
    /\ lk.at["get_target"] = 5
    /\ lk.locks["schedule"].writer = "waiting"

=============================================================================
